---- MODULE Spec2Model ----
(***************************************************************************)
(* NyteBubo: the issue-to-PR workflow (internal/workflows/issue_to_pr.go),  *)
(* the poll loop (internal/core/poller.go) and the state store              *)
(* (internal/core/state.go), in poll mode.                                  *)
(*                                                                          *)
(* Text is modelled as a sequence of tokens: every phrase the code searches *)
(* for is one token, so strings.Contains, strings.HasSuffix and             *)
(* strings.ToLower are computed on tokens.  One processIssue call of the    *)
(* poll loop is one action; the only place where it is split is the code    *)
(* generation retry loop of StartImplementation, whose iterations sleep.    *)
(***************************************************************************)
EXTENDS Integers, Sequences, FiniteSets, TLC

\* ---------------------------------------------------------------- bounds
MaxTime == 602
MaxComments == 5
MaxUserComments == 2
MaxReviewComments == 1
MaxFaults == 1
MaxAttempts == 1
MaxRetryAttempts == 5
MaxRetryTime == 1201
MaxIssueNumber == 12
MaxSummaryLen == 3
MaxListedComments == 3

\* ------------------------------------------------------ program constants
StuckThreshold == 600
maxBackoff == 240
backoffDurationsLinear == <<60, 120, 180>>
backoffDurations == <<60, 120, 240>>

\* the issues of the repository, and the ones assigned to the agent when
\* the others are left unassigned
Issues == {1, 2}
Assigned == {1}
Bot == "nytebubo"
User == "alice"
TickSteps == {600, 601}

\* ------------------------------------------------------------------ text
Last(s) == s[Len(s)]

LowerTok(t) ==
  CASE t = "Could you clarify" -> "could you clarify"
    [] t = "I'll proceed" -> "i'll proceed"
    [] t = "I'll start working" -> "i'll start working"
    [] t = "Rate Limit" -> "rate limit"
    [] t = "Bad Gateway" -> "bad gateway"
    [] OTHER -> t

ToLower(s) == [k \in 1..Len(s) |-> LowerTok(s[k])]

Contains(s, sub) == \E k \in 1..Len(s) : s[k] = sub

HasSuffix(s, suffix) == Len(s) > 0 /\ Last(s) = suffix

QuestionPhrases ==
  {"question?", "questions:", "could you clarify", "can you clarify",
   "please clarify", "need clarification"}

isAskingQuestionPhrasesOnly(response) ==
  \E p \in QuestionPhrases : Contains(ToLower(response), p)

isAskingQuestion(response) ==
  LET lowerResponse == ToLower(response)
  IN  \/ \E p \in QuestionPhrases : Contains(lowerResponse, p)
      \/ HasSuffix(lowerResponse, "?")

ReadyPhrases ==
  {"i'll create a pr", "i will create a pr", "i'll create the pr",
   "i will create the pr", "i'll start working", "i will start working",
   "proceeding with", "i'll proceed", "i will proceed"}

indicatesReadyAlways(commentBody) == TRUE

indicatesReady(commentBody) ==
  LET lowerComment == ToLower(commentBody)
  IN  \E p \in ReadyPhrases : Contains(lowerComment, p)

isRetryable(err) ==
  LET lower == ToLower(err)
      isRateLimit == \/ Contains(err, "429")
                     \/ Contains(lower, "rate limit")
                     \/ Contains(lower, "rate-limit")
      isServerError == \/ \E c \in {"500", "502", "503", "504"} : Contains(err, c)
                       \/ \E p \in {"internal server error", "bad gateway",
                                    "service unavailable", "gateway timeout"} :
                            Contains(lower, p)
  IN  isRateLimit \/ isServerError

\* replies of the assistant to analysis and to comments
Replies ==
  { <<"I'll proceed">>,
    <<"text", "?">>,
    <<"Could you clarify", "I'll proceed">> }

\* replies of the assistant to code generation and to review feedback; a
\* reply is the sequence of its lines
CodeReplies == { <<"summary", "'''go a.go", "package a", "'''">>, <<"text">> }

\* errors of the assistant client during code generation
GenErrors ==
  { <<"OpenRouter API error (", "429", ")">>,
    <<"Bad Gateway">>,
    <<"OpenRouter API error (", "401", ")">> }

\* usage reported with a reply: prompt tokens, completion tokens (one per
\* token of the reply), cost
UsageOf(response) == [in |-> 2, out |-> Len(response), cost |-> 1]

IssueText(i) == <<"Issue Title:", ToString(i)>>

AnalysisComment(response) ==
  <<"Hi! I've been assigned to this issue. Here's my understanding:">> \o response

StartComment ==
  <<"Great! I have a clear understanding now.", "I'll start working",
    "on this and create a pull request shortly.">>

EmptyChangesCommentBare(codeResponse) ==
  <<"I attempted to implement this issue, but couldn't generate files in the correct format.",
    "Could you please review this and let me know if you need me to try again?", "NyteBubo">>

EmptyChangesComment(codeResponse) ==
  <<"I attempted to implement this issue, but couldn't generate files in the correct format.">>
    \o codeResponse
    \o <<"Could you please review this and let me know if you need me to try again?", "NyteBubo">>

CompletedComment(defaultBranch, summary) ==
  <<"I've committed the changes directly to", defaultBranch>> \o summary
    \o <<"Closing this issue as completed.">>

PRLinkComment(prNumber) == <<"I've created a pull request: #", ToString(prNumber)>>

\* a number in text is a run of digit tokens
Digits == <<"0", "1", "2", "3", "4", "5", "6", "7", "8", "9">>

IsDigit(tok) == \E d \in 1..10 : Digits[d] = tok

DigitValue(tok) == (CHOOSE d \in 1..10 : Digits[d] = tok) - 1

\* fmt's %d of a number that is not negative
RECURSIVE FormatInt(_)
FormatInt(n) ==
  IF n < 10 THEN <<Digits[n + 1]>>
  ELSE Append(FormatInt(n \div 10), Digits[(n % 10) + 1])

\* fmt.Sscanf's %d of a run of digits
RECURSIVE ScanInt(_)
ScanInt(digits) ==
  IF digits = <<>> THEN 0
  ELSE 10 * ScanInt(SubSeq(digits, 1, Len(digits) - 1)) + DigitValue(Last(digits))

\* ---------------------------------------------------------------- parser
\* a fence, three backquotes, is written ''' and a backquote '; what the
\* regular expressions of the parser see of a line: whether it
\* starts with a fence, what follows the tag of the fence, whether it ends
\* with a fence, and of which characters it consists
IsFenceLine(line) ==
  line \in {"'''", "'''go", "'''go a.go", "'''go Makefile", "'''go cmd/run"}

FencePath(line) ==
  CASE line = "'''go a.go" -> "a.go"
    [] line = "'''go Makefile" -> "Makefile"
    [] line = "'''go cmd/run" -> "cmd/run"
    [] OTHER -> ""

ClosesInline(line) == line \in {"x := 1'''"}

BeforeClose(line) == CASE line = "x := 1'''" -> "x := 1" [] OTHER -> line

HasFence(line) == IsFenceLine(line) \/ ClosesInline(line)

\* [\w/._-]+ from the start of the line to its end
PathChars(line) == line \in {"summary", "text", "a.go", "b.go", "Makefile", "cmd/run"}

\* [\w/._ -]+ from the start of the line to its end
PathCharsOrSpace(line) == PathChars(line) \/ line \in {"package a", "package b"}

HasDot(path) == path \in {"a.go", "b.go"}

HasSlash(path) == path \in {"cmd/run"}

HasSpace(path) == path \in {"package a", "package b"}

\* (?i)(?:File|Path):\s*'?([\w/._-]+)'?
LabelPath(line) ==
  CASE line = "File: Makefile" -> "Makefile"
    [] line = "path: 'b.go'" -> "b.go"
    [] OTHER -> ""

NoChanges == [path \in {} |-> <<>>]

\* changes[filePath] = content
Put(changes, filePath, content) ==
  [path \in DOMAIN changes \cup {filePath} |->
     IF path = filePath THEN content ELSE changes[path]]

\* the line at which a body that starts at line from ends: the first line
\* that ends with a fence, or that starts with one after the body has begun
BodyEnd(lines, from) ==
  LET ends == { e \in from..Len(lines) :
                  \/ ClosesInline(lines[e])
                  \/ e > from /\ IsFenceLine(lines[e]) }
  IN  IF ends = {} THEN 0 ELSE CHOOSE e \in ends : \A m \in ends : e <= m

Body(lines, from, end) ==
  IF ClosesInline(lines[end])
  THEN Append(SubSeq(lines, from, end - 1), BeforeClose(lines[end]))
  ELSE SubSeq(lines, from, end - 1)

\* re1 at the fence of line k: the path follows the tag on the line of the
\* fence, or it is the whole of the next line
MatchFencePath(lines, k) ==
  LET onFence == IsFenceLine(lines[k]) /\ FencePath(lines[k]) # ""
      below == ~onFence /\ k + 1 <= Len(lines) /\ PathCharsOrSpace(lines[k + 1])
      from == IF onFence THEN k + 1 ELSE k + 2
      end == IF onFence \/ below THEN BodyEnd(lines, from) ELSE 0
  IN  IF end = 0 THEN [ok |-> FALSE]
      ELSE [ok |-> TRUE,
            filePath |-> IF onFence THEN FencePath(lines[k]) ELSE lines[k + 1],
            content |-> Body(lines, from, end),
            next |-> end + 1]

\* re2 and re3 at line k: a fence without a path on the next line and one
\* line of body that ends with the closing fence
MatchBlockBelow(lines, k) ==
  k + 2 <= Len(lines)
    /\ IsFenceLine(lines[k + 1]) /\ FencePath(lines[k + 1]) = ""
    /\ ClosesInline(lines[k + 2])

MatchLabel(lines, k) ==
  IF LabelPath(lines[k]) # "" /\ MatchBlockBelow(lines, k)
  THEN [ok |-> TRUE, filePath |-> LabelPath(lines[k]),
        content |-> <<BeforeClose(lines[k + 2])>>, next |-> k + 3]
  ELSE [ok |-> FALSE]

MatchBarePath(lines, k) ==
  IF PathChars(lines[k]) /\ MatchBlockBelow(lines, k)
  THEN [ok |-> TRUE, filePath |-> lines[k],
        content |-> <<BeforeClose(lines[k + 2])>>, next |-> k + 3]
  ELSE [ok |-> FALSE]

\* the test a pattern puts a matched path to
Accepts(pattern, filePath) ==
  CASE pattern = 1 -> HasDot(filePath) \/ HasSlash(filePath)
    [] pattern = 2 -> TRUE
    [] OTHER -> HasDot(filePath) /\ ~HasSpace(filePath)

MatchAt(pattern, lines, k) ==
  CASE pattern = 1 -> IF HasFence(lines[k]) THEN MatchFencePath(lines, k)
                      ELSE [ok |-> FALSE]
    [] pattern = 2 -> MatchLabel(lines, k)
    [] OTHER -> MatchBarePath(lines, k)

\* FindAllStringSubmatch of a pattern and the loop over its matches: the
\* matches from line k on, and the changes with the accepted ones
RECURSIVE FindAll(_, _, _, _)

\* the body of the loop over the matches: the path of the match is tested
\* and the match goes into the changes
Matched(pattern, found, match) ==
  [matches |-> found.matches + 1,
   changes |-> IF Accepts(pattern, match.filePath)
               THEN Put(found.changes, match.filePath, match.content)
               ELSE found.changes]

\* the search goes on after a match, or at the next line
FindNext(pattern, lines, k, found, match) ==
  IF match.ok
  THEN FindAll(pattern, lines, match.next, Matched(pattern, found, match))
  ELSE FindAll(pattern, lines, k + 1, found)

FindAll(pattern, lines, k, found) ==
  IF k > Len(lines) THEN found
  ELSE FindNext(pattern, lines, k, found, MatchAt(pattern, lines, k))

\* what each of the three patterns finds in the reply
FindEach(response) ==
  [p \in 1..3 |-> FindAll(p, response, 1, [matches |-> 0, changes |-> NoChanges])]

\* the patterns are tried in their order up to the first that has accepted
\* a path
TryInOrder(run) ==
  LET tried == IF DOMAIN run[1].changes # {} THEN <<1>>
               ELSE IF DOMAIN run[2].changes # {} THEN <<1, 2>>
               ELSE <<1, 2, 3>>
  IN  [changes |-> run[Last(tried)].changes, tried |-> tried,
       matches |-> [p \in 1..3 |-> IF p <= Len(tried) THEN run[p].matches ELSE 0],
       accepted |-> [p \in 1..3 |->
                       IF p <= Len(tried) THEN Cardinality(DOMAIN run[p].changes)
                       ELSE 0]]

\* the next pattern is tried whatever the pattern before has found
MarkdownRunOfAll(response) ==
  LET run == FindEach(response)
      last == IF DOMAIN run[3].changes # {} THEN 3
              ELSE IF DOMAIN run[2].changes # {} THEN 2 ELSE 1
  IN  [changes |-> run[last].changes, tried |-> <<1, 2, 3>>,
       matches |-> [p \in 1..3 |-> run[p].matches],
       accepted |-> [p \in 1..3 |-> Cardinality(DOMAIN run[p].changes)]]

\* tryParseMarkdown with the patterns it has tried, the number of matches of
\* each and the number of paths each has accepted
MarkdownRun(response) == TryInOrder(FindEach(response))

tryParseMarkdown(response) == MarkdownRun(response).changes

\* the lines of a reply in the structured dialect: the object, its summary,
\* the array files and its entries
SummaryLines == {"summary: add file", "summary: "}

JSONSummary(line) == CASE line = "summary: add file" -> "add file" [] OTHER -> ""

FileEntries ==
  {"{path: a.go, content: package a}", "{path: a.go, content: x := 1}",
   "{path: b.go, content: package b}", "{path: , content: package a}",
   "{path: b.go, content: }"}

EntryPath(line) ==
  CASE line \in {"{path: a.go, content: package a}",
                 "{path: a.go, content: x := 1}"} -> "a.go"
    [] line \in {"{path: b.go, content: package b}",
                 "{path: b.go, content: }"} -> "b.go"
    [] OTHER -> ""

EntryContent(line) ==
  CASE line \in {"{path: a.go, content: package a}",
                 "{path: , content: package a}"} -> <<"package a">>
    [] line = "{path: a.go, content: x := 1}" -> <<"x := 1">>
    [] line = "{path: b.go, content: package b}" -> <<"package b">>
    [] OTHER -> <<>>

\* json.Unmarshal of the reply: the whole reply is one object that has a
\* summary, an array files, both or neither
Unmarshal(response) ==
  LET n == Len(response)
      inner == SubSeq(response, 2, n - 1)
      summarised == inner # <<>> /\ Head(inner) \in SummaryLines
      rest == IF summarised THEN Tail(inner) ELSE inner
      entries == SubSeq(rest, 2, Len(rest) - 1)
      listed == /\ Len(rest) >= 2
                /\ Head(rest) = "files: [" /\ Last(rest) = "]"
                /\ \A k \in 1..Len(entries) : entries[k] \in FileEntries
  IN  IF n >= 2 /\ Head(response) = "{" /\ Last(response) = "}"
         /\ (rest = <<>> \/ listed)
      THEN [err |-> FALSE,
            Summary |-> IF summarised THEN JSONSummary(Head(inner)) ELSE "",
            Files |-> IF rest = <<>> THEN <<>> ELSE entries]
      ELSE [err |-> TRUE, Summary |-> "", Files |-> <<>>]

RECURSIVE ExtractFiles(_, _)
ExtractFiles(Files, changes) ==
  IF Files = <<>> THEN changes
  ELSE LET file == Head(Files)
       IN  ExtractFiles(Tail(Files),
                        IF EntryPath(file) # "" /\ EntryContent(file) # <<>>
                        THEN Put(changes, EntryPath(file), EntryContent(file))
                        ELSE changes)

\* every entry that has a path is taken, whatever its content
tryParseJSONKeepsEmpty(response) ==
  LET Files == Unmarshal(response).Files
  IN  [path \in { EntryPath(Files[k]) : k \in 1..Len(Files) } \ {""} |->
         EntryContent(Files[CHOOSE k \in 1..Len(Files) :
                                    /\ EntryPath(Files[k]) = path
                                    /\ \A m \in (k + 1)..Len(Files) :
                                         EntryPath(Files[m]) # path])]

tryParseJSON(response) ==
  LET jsonResponse == Unmarshal(response)
  IN  IF jsonResponse.err THEN NoChanges
      ELSE ExtractFiles(jsonResponse.Files, NoChanges)

\* the fenced blocks are looked at first
ParseRunFencesFirst(response) ==
  IF DOMAIN tryParseMarkdown(response) # {}
  THEN [changes |-> tryParseMarkdown(response), calls |-> <<"tryParseMarkdown">>]
  ELSE [changes |-> tryParseJSON(response),
        calls |-> <<"tryParseMarkdown", "tryParseJSON">>]

\* the changes of the structured dialect are returned when there are any,
\* and only then the fenced blocks are looked at
OrMarkdown(changes, response) ==
  IF DOMAIN changes # {}
  THEN [changes |-> changes, calls |-> <<"tryParseJSON">>]
  ELSE [changes |-> tryParseMarkdown(response),
        calls |-> <<"tryParseJSON", "tryParseMarkdown">>]

\* parseCodeChanges with the parsers it has called
ParseRun(response) == OrMarkdown(tryParseJSON(response), response)

parseCodeChanges(response) == ParseRun(response).changes

\* the orders in which a range over a map can visit its keys
Orders(keys) ==
  { order \in [1..Cardinality(keys) -> keys] :
      \A j, k \in 1..Cardinality(keys) : order[j] = order[k] => j = k }

RECURSIVE FileList(_)
FileList(order) ==
  IF order = <<>> THEN <<>> ELSE <<"-", Head(order)>> \o FileList(Tail(order))

extractSummaryBare(response, fileChanges) ==
  LET jsonResponse == Unmarshal(response)
  IN  IF ~jsonResponse.err /\ jsonResponse.Summary # ""
      THEN { <<jsonResponse.Summary>> }
      ELSE { SelectSeq(response, LAMBDA line : ~IsFenceLine(line)) }

\* the summaries extractSummary can return: the files are listed in the
\* order in which the map is ranged over
extractSummary(response, fileChanges) ==
  LET jsonResponse == Unmarshal(response)
      fences == { k \in 1..Len(response) : IsFenceLine(response[k]) }
      first == IF fences = {} THEN Len(response) + 1
               ELSE CHOOSE k \in fences : \A m \in fences : k <= m
      summary == IF ~jsonResponse.err /\ jsonResponse.Summary # ""
                 THEN <<jsonResponse.Summary>>
                 ELSE SubSeq(response, 1, first - 1)
      n == Cardinality(DOMAIN fileChanges)
  IN  IF summary # <<>>
      THEN IF n > 0
           THEN { summary \o <<"**Files changed:**">> \o FileList(order) :
                    order \in Orders(DOMAIN fileChanges) }
           ELSE { summary }
      ELSE IF n = 1
      THEN { <<"Updated", CHOOSE path \in DOMAIN fileChanges : TRUE>> }
      ELSE IF n > 1
      THEN { <<"Updated">> \o FormatInt(n) \o <<"files:">> \o FileList(order) :
               order \in Orders(DOMAIN fileChanges) }
      ELSE { <<>> }

PRBodySummaryFirst(issueNumber, summary) ==
  summary \o <<"[newlines]", "Fixes #">> \o FormatInt(issueNumber)
    \o <<"[newlines]", "---", "This PR was automatically generated by NyteBubo">>

PRBody(issueNumber, summary) ==
  <<"Fixes #">> \o FormatInt(issueNumber) \o <<"[newlines]">> \o summary
    \o <<"[newlines]", "---", "This PR was automatically generated by NyteBubo">>

extractIssueNumberOrFirst(body) ==
  IF \E k \in 1..(Len(body) - 1) : body[k] = "Fixes #" /\ IsDigit(body[k + 1])
  THEN ScanInt(<<body[1 + CHOOSE k \in 1..(Len(body) - 1) :
                           body[k] = "Fixes #" /\ IsDigit(body[k + 1])]>>)
  ELSE 1

\* the leftmost match of Fixes #(\d+), the digits taken greedily
extractIssueNumber(body) ==
  LET matches == { k \in 1..(Len(body) - 1) : body[k] = "Fixes #" /\ IsDigit(body[k + 1]) }
  IN  IF matches = {} THEN 0
      ELSE LET k == CHOOSE j \in matches : \A m \in matches : j <= m
               ends == { e \in (k + 1)..Len(body) :
                           \A j \in (k + 1)..e : IsDigit(body[j]) }
               last == CHOOSE e \in ends : \A m \in ends : m <= e
           IN  ScanInt(SubSeq(body, k + 1, last))

BranchFor(i) == CASE i = 1 -> "nytebubo/issue-1" [] OTHER -> "nytebubo/issue-2"

PRNumberFor(i) == 10 + i

UserBody(k) == CASE k = 1 -> <<"c1">> [] k = 2 -> <<"c2">> [] OTHER -> <<"c3">>

ReviewBody(k) == CASE k = 1 -> <<"r1">> [] OTHER -> <<"r2">>

\* ----------------------------------------------------------------- state
Msg(role, content) == [role |-> role, content |-> content]

\* a State value; id = 0 is a state that has no row in agent_states
NoState ==
  [id |-> 0, issue |-> 0, status |-> "", prNumber |-> 0, branchName |-> "",
   conversation |-> <<>>, totalIn |-> 0, totalOut |-> 0, totalCost |-> 0,
   createdAt |-> 0, updatedAt |-> 0]

NoPR == [number |-> 0, body |-> <<>>]

\* no pull request body is being linked
NoLink == [step |-> "", issue |-> 0, summary |-> <<>>, body |-> <<>>, found |-> 0]

\* no component is looked at on its own
NoDB == [rows |-> <<>>, seq |-> 0]
NoParse ==
  [step |-> "", response |-> <<>>, changes |-> <<>>, calls |-> <<>>,
   tried |-> <<>>, matches |-> <<0, 0, 0>>, accepted |-> <<0, 0, 0>>,
   summary |-> <<>>]
NoPages ==
  [step |-> "", listing |-> "", total |-> 0, pulls |-> {}, items |-> {},
   NextPage |-> 0, result |-> {}]

IdlePC ==
  [phase |-> "idle", issue |-> 0, state |-> NoState, branchName |-> "",
   defaultBranch |-> "", attempt |-> 0, caller |-> "", rest |-> <<>>]

VARIABLES
  store,       \* agent_states: issue number -> row (id = 0: no row)
  comments,    \* tracker: issue number -> sequence of issue comments
  prs,         \* tracker: issue number -> pull request opened for it
  prComments,  \* tracker: issue number -> review comments of its PR
  branches,    \* tracker: set of branches created
  files,       \* tracker: set of <<branch, path>> written
  closed,      \* tracker: set of closed issues
  repoEmpty,   \* tracker: the repository has no commit yet
  now,         \* wall clock, seconds
  pc,          \* position of the poll loop (idle, or inside the retry loop)
  log,         \* events of the current (last) processIssue call
  sleeps,      \* sleeps of the current (last) retry loop
  genErr,      \* error of the last code generation attempt (<<>>: none)
  genReply,    \* reply of the last code generation attempt (<<>>: none)
  link,        \* a pull request body built for an issue and read back
  db,          \* the table agent_states as rows, with its AUTOINCREMENT sequence
  savers,      \* concurrent handlers that save: their State values
  parse,       \* a reply of the assistant and what the parsers make of it
  pages,       \* a listing of the tracker that is read page by page
  faults       \* number of external calls that may still fail

\* the variables of the specifications of single components
probes == <<db, savers, parse, pages>>

vars == <<store, comments, prs, prComments, branches, files, closed,
          repoEmpty, now, pc, log, sleeps, genErr, genReply, link, probes, faults>>

NoProbes ==
  /\ db = NoDB
  /\ savers = <<>>
  /\ parse = NoParse
  /\ pages = NoPages

World ==
  [store |-> store, comments |-> comments, prs |-> prs,
   prComments |-> prComments, branches |-> branches, files |-> files,
   closed |-> closed, repoEmpty |-> repoEmpty, now |-> now, pc |-> pc,
   log |-> log, sleeps |-> sleeps, genErr |-> genErr, genReply |-> genReply,
   link |-> link, faults |-> faults,
   ret |-> "nil"]

Ev(w, kind, arg) == [w EXCEPT !.log = Append(@, <<kind, arg>>)]

Ret(w, r) == [w EXCEPT !.ret = r]

\* an external call (store, tracker, assistant) fails
Err(w, call) == [Ev(w, "err", call) EXCEPT !.faults = @ - 1]

Fail(w, call) == Ret(Err(w, call), "error")

\* ----------------------------------------------------------------- store
NextID(w) == 1 + Cardinality({ j \in Issues : w.store[j].id # 0 })

\* GetState never changes the store; a failed read is a branch of the caller
GetState(w, i) == w.store[i]

\* both outcomes of StateManager.SaveState: the upsert fails, or it is done
SaveState(w, st) ==
  LET stamped == [st EXCEPT !.createdAt = IF @ = 0 THEN w.now ELSE @,
                            !.updatedAt = w.now]
      old == w.store[st.issue]
      row == IF old.id = 0
             THEN [stamped EXCEPT !.id = NextID(w)]
             ELSE [stamped EXCEPT !.id = old.id, !.createdAt = old.createdAt]
      local == IF stamped.id = 0 THEN [stamped EXCEPT !.id = row.id] ELSE stamped
  IN  { [ok |-> FALSE, w |-> Err(w, "SaveState"), state |-> stamped],
        [ok |-> TRUE,
         w |-> [Ev(w, "save", st.status) EXCEPT !.store[st.issue] = row],
         state |-> local] }

AddTurnReplacing(st, role, content) ==
  [st EXCEPT !.conversation = <<Msg(role, content)>>]

AddTurn(st, role, content) ==
  [st EXCEPT !.conversation = Append(@, Msg(role, content))]

AddUsageOverwrite(st, usage) ==
  [st EXCEPT !.totalIn = usage.in,
             !.totalOut = usage.out,
             !.totalCost = usage.cost]

AddUsage(st, usage) ==
  [st EXCEPT !.totalIn = @ + usage.in,
             !.totalOut = @ + usage.out,
             !.totalCost = @ + usage.cost]

\* --------------------------------------------------------------- tracker
CreateIssueComment(w, i, body, kind, re) ==
  { [ok |-> FALSE, w |-> Err(w, "CreateIssueComment")],
    [ok |-> TRUE,
     w |-> [Ev(w, "post", kind) EXCEPT
              !.comments[i] = Append(@, [author |-> Bot, body |-> body,
                                         at |-> 0, kind |-> kind, re |-> re,
                                         during |-> ""])]] }

EmptyRepoError == <<"failed to get base branch:", "409", "Git Repository is", "empty">>
OtherBranchError == <<"failed to create branch:", "422", "Reference already exists">>

isEmptyRepoErrorNever(err) == FALSE

isEmptyRepoError(err) == Contains(err, "409") \/ Contains(err, "empty")

\* GitHubClient.CreateBranch: the base ref of an empty repository cannot be
\* read, an existing ref cannot be created again, and any call may fail
CreateBranch(w, newBranch) ==
  LET called == Ev(w, "call", "CreateBranch")
  IN  { [err |-> OtherBranchError, w |-> Err(called, "CreateBranch")] }
        \cup (IF w.repoEmpty
              THEN { [err |-> EmptyRepoError, w |-> called] }
              ELSE IF newBranch \in w.branches
              THEN { [err |-> OtherBranchError, w |-> Ev(called, "err", "CreateBranch")] }
              ELSE { [err |-> <<>>, w |-> [called EXCEPT !.branches = @ \cup {newBranch}]] })

WriteFiles(w, branch, paths) ==
  IF paths = {} THEN w
  ELSE [Ev(w, "write", branch) EXCEPT
          !.files = @ \cup { <<branch, p>> : p \in paths },
          !.repoEmpty = @ /\ branch # "main"]

\* GitHubClient.CreatePullRequest: one open pull request per head branch
CreatePullRequest(w, i, body) ==
  { [ok |-> FALSE, w |-> Err(w, "CreatePullRequest")] }
    \cup (IF w.prs[i].number # 0
          THEN { [ok |-> FALSE, w |-> Ev(w, "err", "CreatePullRequest")] }
          ELSE { [ok |-> TRUE,
                  w |-> [Ev(w, "call", "CreatePullRequest") EXCEPT
                           !.prs[i] = [number |-> PRNumberFor(i), body |-> body]]] })

\* ------------------------------------------------------- implementation
reusesBranchNever(st) == FALSE

\* a branch name persisted by an earlier run is reused
reusesBranch(st) == st.branchName # ""

StartedUnmarked(st) == st

\* the State that StartImplementation saves before anything else
Started(st) == [st EXCEPT !.status = "implementing"]

\* StartImplementation up to the retry loop: the worlds it can return in
\* (ret = "error") and the worlds in which it enters the retry loop
StartImplementation(w, i) ==
  LET state == GetState(w, i)
      defaultBranch == "main"
      Enter(w3, st3, branchName) ==
        [w3 EXCEPT !.pc = [phase |-> "generating", issue |-> i, state |-> st3,
                           branchName |-> branchName,
                           defaultBranch |-> defaultBranch, attempt |-> 0,
                           caller |-> "", rest |-> <<>>],
                   !.sleeps = <<>>]
      Persist(w3, st3, branchName) ==
        { IF s.ok THEN Enter(s.w, s.state, branchName) ELSE Ret(s.w, "error") :
            s \in SaveState(w3, st3) }
      Branch(w2, st2) ==
        IF reusesBranch(st2)
        THEN { Enter(Ev(w2, "reuse", st2.branchName), st2, st2.branchName) }
        ELSE LET named == [st2 EXCEPT !.branchName = BranchFor(i)]
             IN  UNION { IF b.err = <<>>
                         THEN Persist(b.w, named, BranchFor(i))
                         ELSE IF isEmptyRepoError(b.err)
                         THEN Persist(b.w, [named EXCEPT !.branchName = defaultBranch],
                                      defaultBranch)
                         ELSE { Ret(b.w, "error") } :
                         b \in CreateBranch(w2, BranchFor(i)) }
  IN  { Fail(w, "GetState") }
        \cup (IF state.id = 0 THEN { Ret(w, "error") }
              ELSE UNION {
                IF ~s.ok THEN { Ret(s.w, "error") }
                ELSE UNION {
                  IF ~c.ok THEN { Ret(c.w, "error") }
                  ELSE { Fail(c.w, "GetRepository") } \cup Branch(c.w, s.state) :
                  c \in CreateIssueComment(s.w, i, StartComment, "start", <<>>) } :
                s \in SaveState(w, Started(state)) })

OpenedUnnumbered(st, prNumber) == [st EXCEPT !.status = "pr_created"]

\* the record of an issue whose pull request was opened
Opened(st, prNumber) == [st EXCEPT !.prNumber = prNumber, !.status = "pr_created"]

\* what StartImplementation does with the changes of a code response
ApplyChanges(w, codeResponse, usage, fileChanges, paths) ==
  LET i == w.pc.issue
      branchName == w.pc.branchName
      defaultBranch == w.pc.defaultBranch
      state == AddUsage(w.pc.state, usage)
      Empty ==
        UNION { IF ~c.ok THEN { Ret(c.w, "error") }
                ELSE { Ret(s.w, IF s.ok THEN "nil" ELSE "error") :
                       s \in SaveState(c.w, [state EXCEPT
                                               !.status = "waiting_for_clarification"]) } :
                c \in CreateIssueComment(w, i, EmptyChangesComment(codeResponse),
                                         "empty", <<>>) }
      Direct(w1, summary) ==
        UNION { IF ~s.ok THEN { Ret(s.w, "error") }
                ELSE UNION {
                  IF ~c.ok THEN { Ret(c.w, "error") }
                  ELSE { Ret(Err(c.w, "Issues.Edit"), "nil"),
                         Ret([Ev(c.w, "call", "Issues.Edit") EXCEPT
                                !.closed = @ \cup {i}], "nil") } :
                  c \in CreateIssueComment(s.w, i,
                          CompletedComment(defaultBranch, summary), "completed", <<>>) } :
                s \in SaveState(w1, [state EXCEPT !.status = "completed"]) }
      PullRequest(w1, summary) ==
        UNION { IF ~p.ok THEN { Ret(p.w, "error") }
                ELSE UNION {
                  IF ~s.ok THEN { Ret(s.w, "error") }
                  ELSE { Ret(c.w, IF c.ok THEN "nil" ELSE "error") :
                         c \in CreateIssueComment(s.w, i,
                                 PRLinkComment(p.w.prs[i].number), "pr", <<>>) } :
                  s \in SaveState(p.w, Opened(state, p.w.prs[i].number)) } :
                p \in CreatePullRequest(w1, i, PRBody(i, summary)) }
      Apply ==
        { Fail(WriteFiles(w, branchName, written), "CreateOrUpdateFile") :
            written \in (SUBSET paths) \ {paths} }
          \cup { Fail(WriteFiles(w, branchName, paths), "GetIssue") }
          \cup UNION { IF branchName = defaultBranch
                       THEN Direct(WriteFiles(w, branchName, paths), summary)
                       ELSE PullRequest(WriteFiles(w, branchName, paths), summary) :
                       summary \in extractSummary(codeResponse, fileChanges) }
  IN  IF paths = {} THEN Empty ELSE Apply

\* StartImplementation after the retry loop has left with a reply
ParsedChanges(w, codeResponse, usage, fileChanges) ==
  ApplyChanges(w, codeResponse, usage, fileChanges, DOMAIN fileChanges)

FinishImplementation(w, codeResponse, usage) ==
  ParsedChanges(w, codeResponse, usage, parseCodeChanges(codeResponse))

\* -------------------------------------------------------------- handlers
resolveStatusKeeps(status, response) == status

\* the status HandleIssueAssignment sets before it saves the State
resolveStatus(status, response) ==
  IF isAskingQuestion(response) THEN "waiting_for_clarification"
  ELSE "ready_to_implement"

HandleIssueAssignment(w, i) ==
  LET existing == GetState(w, i)
      Fresh(listed, identified) ==
        LET w1 == IF listed THEN w ELSE Err(w, "ListIssueComments")
            w2 == IF identified THEN w1 ELSE Err(w1, "GetAuthenticatedUser")
            existingComments == IF listed THEN w.comments[i] ELSE <<>>
            base == [NoState EXCEPT !.issue = i, !.status = "analyzing",
                                    !.conversation = <<Msg("user", IssueText(i))>>]
        IN  [w |-> w2,
             state |-> IF identified /\ Len(existingComments) > 0
                       THEN [base EXCEPT !.conversation =
                               @ \o [k \in 1..Len(existingComments) |->
                                       Msg(IF existingComments[k].author = Bot
                                           THEN "assistant" ELSE "user",
                                           existingComments[k].body)]]
                       ELSE base]
      starts == IF existing.id = 0
                THEN { Fresh(listed, identified) : listed \in BOOLEAN, identified \in BOOLEAN }
                ELSE { [w |-> w, state |-> existing] }
      Analyze(w0, state, response, usage) ==
        LET replied == IF Len(state.conversation) > 1 THEN state
                       ELSE AddTurn(state, "assistant", response)
            counted == AddUsage(replied, usage)
            appended == IF Len(counted.conversation) > 0
                           /\ Last(counted.conversation).content # response
                        THEN AddTurn(counted, "assistant", response)
                        ELSE counted
            shouldComment == Len(appended.conversation) <= 2
            next == [appended EXCEPT !.status = resolveStatus(@, response)]
            posted == IF shouldComment
                      THEN CreateIssueComment(w0, i, AnalysisComment(response),
                                              "analysis", <<>>)
                      ELSE { [ok |-> TRUE, w |-> w0] }
        IN  UNION { IF ~c.ok THEN { Ret(c.w, "error") }
                    ELSE UNION {
                      IF ~s.ok THEN { Ret(s.w, "error") }
                      ELSE IF next.status = "ready_to_implement"
                      THEN StartImplementation(s.w, i)
                      ELSE { Ret(s.w, "nil") } :
                      s \in SaveState(c.w, next) } :
                    c \in posted }
  IN  { Fail(w, "GetIssue"), Fail(w, "GetState") }
        \cup { Fail(b.w, "AnalyzeIssue") : b \in starts }
        \cup UNION { Analyze(b.w, b.state, response, UsageOf(response)) :
                       b \in starts, response \in Replies }

clarifiedWhateverStatus(st, response) == ~isAskingQuestion(response)

\* the record was waiting for a clarification and the reply asks no more
clarified(st, response) ==
  st.status = "waiting_for_clarification" /\ ~isAskingQuestion(response)

HandleIssueComment(w, i, commentBody) ==
  LET state == GetState(w, i)
      Respond(response, usage) ==
        LET asked == AddTurn(state, "user", commentBody)
            replied == AddTurn(AddUsage(asked, usage), "assistant", response)
        IN  UNION {
              IF ~c.ok THEN { Ret(c.w, "error") }
              ELSE IF clarified(replied, response)
              THEN UNION { IF s.ok THEN StartImplementation(s.w, i)
                           ELSE { Ret(s.w, "error") } :
                           s \in SaveState(c.w, [replied EXCEPT
                                                   !.status = "ready_to_implement"]) }
              ELSE { Ret(s.w, IF s.ok THEN "nil" ELSE "error") :
                     s \in SaveState(c.w, replied) } :
              c \in CreateIssueComment(w, i, response, "reply", commentBody) }
  IN  { Fail(w, "GetState") }
        \cup (IF state.id = 0 THEN { Ret(w, "error") }
              ELSE { Fail(w, "SendMessage") }
                     \cup UNION { Respond(response, UsageOf(response)) :
                                    response \in Replies })

ReviewingRestarts(st) == [st EXCEPT !.status = "ready_to_implement"]

ReviewingReopens(st) == [st EXCEPT !.status = "implementing"]

Reviewing(st) == [st EXCEPT !.status = "reviewing"]

\* the issue whose pull request has this number (0: no such pull request)
PRIssue(w, prNumber) ==
  IF \E j \in Issues : w.prs[j].number = prNumber /\ prNumber # 0
  THEN CHOOSE j \in Issues : w.prs[j].number = prNumber
  ELSE 0

FeedbackBare(commentBody) == commentBody

\* the user turn that carries a review comment
Feedback(commentBody) == <<"Review feedback:">> \o commentBody

HandlePRComment(w, prNumber, commentBody) ==
  LET holder == PRIssue(w, prNumber)
      issueNumber == IF holder = 0 THEN 0 ELSE extractIssueNumber(w.prs[holder].body)
      state == IF issueNumber \in Issues THEN GetState(w, issueNumber) ELSE NoState
      Revise(response, usage) ==
        LET reviewing == AddTurn(Reviewing(state), "user", Feedback(commentBody))
            replied == AddTurn(AddUsage(reviewing, usage), "assistant", response)
            fileChanges == DOMAIN parseCodeChanges(response)
            applied == WriteFiles(w, replied.branchName, fileChanges)
        IN  { Fail(WriteFiles(w, replied.branchName, written), "CreateOrUpdateFile") :
                written \in (SUBSET fileChanges) \ {fileChanges} }
              \cup { Ret(s.w, IF s.ok THEN "nil" ELSE "error") :
                     s \in SaveState(applied, replied) }
  IN  { Fail(w, "GetPullRequest") }
        \cup (IF issueNumber = 0 THEN { Ret(w, "error") }
              ELSE { Fail(w, "GetState") }
                     \cup (IF state.id = 0 THEN { Ret(w, "error") }
                           ELSE { Fail(w, "ReviewFeedback") }
                                  \cup UNION { Revise(response, UsageOf(response)) :
                                                 response \in CodeReplies }))

\* ------------------------------------------------------------- poll loop
needsReconcilingWhateverStatus(st, commentBody) == indicatesReady(commentBody)

needsReconciling(st, commentBody) ==
  indicatesReady(commentBody) /\ st.status = "waiting_for_clarification"

reconcileStatus(w, i, state) ==
  LET listed == w.comments[i]
      bots == { k \in 1..Len(listed) : listed[k].author = Bot }
      lastBotComment == listed[CHOOSE k \in bots : \A m \in bots : m <= k]
  IN  { Err(w, "ListIssueComments") }
        \cup (IF bots = {} THEN { w }
              ELSE IF needsReconciling(state, lastBotComment.body)
              THEN { s.w : s \in SaveState(Ev(w, "reconcile", "ready_to_implement"),
                                           [state EXCEPT !.status = "ready_to_implement"]) }
              ELSE { w })

getNewCommentsOfAll(w, i, state) ==
  SelectSeq(w.comments[i], LAMBDA c : c.at >= state.updatedAt)

getNewComments(w, i, state) ==
  SelectSeq(w.comments[i], LAMBDA c : c.author # Bot /\ c.at > state.updatedAt)

getNewPRComments(w, prNumber, state) ==
  LET holder == PRIssue(w, prNumber)
  IN  IF holder = 0 THEN <<>>
      ELSE SelectSeq(w.prComments[holder],
                     LAMBDA c : c.author # Bot /\ c.at > state.updatedAt)

\* the worlds in which no more calls have failed than may fail
Alive(S) == { w \in S : w.faults >= 0 }

\* a handler that entered the retry loop remembers what the poll loop still
\* has to do when it returns
Suspend(w, caller, rest) ==
  IF w.pc.phase = "generating"
  THEN [w EXCEPT !.pc.caller = caller, !.pc.rest = rest]
  ELSE w

\* the poll loop logs the error a comment callback returns and goes on
Handled(h, kind) == IF h.ret = "error" THEN Ev(h, "cberr", kind) ELSE h

RECURSIVE CommentLoop(_, _, _)
CommentLoop(w, i, newComments) ==
  IF newComments = <<>> THEN { Ret(w, "nil") }
  ELSE UNION { IF h.pc.phase = "generating"
               THEN { Suspend(h, "comment", Tail(newComments)) }
               ELSE CommentLoop(Handled(h, "comment"), i, Tail(newComments)) :
               h \in Alive(HandleIssueComment(
                            Ev(Ev(w, "new", Head(Head(newComments).body)),
                               "cb", "comment"),
                            i, Head(newComments).body)) }

RECURSIVE ReviewLoop(_, _, _)
ReviewLoop(w, prNumber, newReviewComments) ==
  IF newReviewComments = <<>> THEN { Ret(w, "nil") }
  ELSE UNION { ReviewLoop(Handled(h, "review"), prNumber, Tail(newReviewComments)) :
               h \in Alive(HandlePRComment(
                            Ev(Ev(w, "new", Head(Head(newReviewComments).body)),
                               "cb", "review"),
                            prNumber, Head(newReviewComments).body)) }

isStuckAtThreshold(w, st) == w.now - st.updatedAt >= StuckThreshold

isStuck(w, st) == w.now - st.updatedAt > StuckThreshold

watchesCommentsAfterPR(st) ==
  st.status \in {"waiting_for_clarification", "pr_created"}

\* the statuses in which the poll loop looks for new comments on the issue
\* and for new review comments on the pull request
watchesComments(st) == st.status = "waiting_for_clarification"

watchesReviews(st) == st.status \in {"pr_created", "reviewing"}

processIssue(w, i) ==
  LET state == GetState(w, i)
      Implement(w1) ==
        { Suspend(x, "implementation", <<>>) :
            x \in StartImplementation(Ev(w1, "cb", "implementation"), i) }
      Reviews(w2, st) ==
        IF watchesReviews(st) /\ st.prNumber # 0
        THEN { Fail(w2, "ListPRComments") }
               \cup ReviewLoop(w2, st.prNumber, getNewPRComments(w2, st.prNumber, st))
        ELSE { Ret(w2, "nil") }
      Dispatch(w1, st) ==
        IF st.status = "ready_to_implement" THEN Implement(w1)
        ELSE IF st.status = "implementing"
        THEN IF isStuck(w1, st)
             THEN UNION { Implement(s.w) :
                            s \in SaveState(Ev(w1, "stuck", "reset"),
                                            [st EXCEPT !.status = "ready_to_implement"]) }
             ELSE { Ret(Ev(w1, "stuck", "no"), "nil") }
        ELSE IF watchesComments(st)
        THEN { Fail(w1, "ListIssueComments") }
               \cup UNION { IF x.pc.phase = "generating" THEN { x }
                            ELSE Reviews(x, st) :
                            x \in Alive(CommentLoop(w1, i, getNewComments(w1, i, st))) }
        ELSE Reviews(w1, st)
  IN  { Fail(w, "GetState") }
        \cup (IF state.id = 0
              THEN { Suspend(x, "issue", <<>>) :
                       x \in HandleIssueAssignment(Ev(w, "cb", "issue"), i) }
              ELSE IF state.status = "waiting_for_clarification"
              THEN UNION { { Fail(r, "GetState") } \cup Dispatch(r, GetState(r, i)) :
                           r \in Alive(reconcileStatus(w, i, state)) }
              ELSE Dispatch(w, state))

\* the end of processIssue: poll logs the error, if any
Done(w) ==
  IF w.pc.phase = "generating" THEN w
  ELSE Ev(w, "return", w.ret)

\* the retry loop was left: the rest of the processIssue call that entered it
Resume(w) ==
  LET back == [w EXCEPT !.pc = IdlePC]
  IN  IF w.pc.caller = "comment"
      THEN { Done(x) : x \in CommentLoop(Handled(back, "comment"), w.pc.issue,
                                          w.pc.rest) }
      ELSE { Done(back) }

Bounded(w) ==
  \A i \in Issues :
    /\ Len(w.comments[i]) <= MaxComments
    /\ w.faults >= 0

CommitWorld(w) ==
  /\ store' = w.store
  /\ comments' = w.comments
  /\ prs' = w.prs
  /\ prComments' = w.prComments
  /\ branches' = w.branches
  /\ files' = w.files
  /\ closed' = w.closed
  /\ repoEmpty' = w.repoEmpty
  /\ now' = w.now
  /\ pc' = w.pc
  /\ log' = w.log
  /\ sleeps' = w.sleeps
  /\ genErr' = w.genErr
  /\ genReply' = w.genReply
  /\ link' = w.link
  /\ faults' = w.faults

Commit(w) == CommitWorld(w) /\ UNCHANGED probes

\* --------------------------------------------------------------- actions
Init ==
  /\ store = [i \in Issues |-> NoState]
  /\ comments = [i \in Issues |-> <<>>]
  /\ prs = [i \in Issues |-> NoPR]
  /\ prComments = [i \in Issues |-> <<>>]
  /\ branches = {}
  /\ files = {}
  /\ closed = {}
  /\ repoEmpty \in BOOLEAN
  /\ now = 1
  /\ pc = IdlePC
  /\ log = <<>>
  /\ sleeps = <<>>
  /\ genErr = <<>>
  /\ genReply = <<>>
  /\ link = NoLink
  /\ NoProbes
  /\ faults = MaxFaults

\* between two processIssue calls the log of the last one is dropped
EnvLog == IF pc.phase = "idle" THEN <<>> ELSE log

Poll(i) ==
  /\ pc.phase = "idle"
  /\ i \notin closed
  /\ \E w \in processIssue(Ev([World EXCEPT !.log = <<>>], "poll", ToString(i)), i) :
       Bounded(w) /\ Commit(Done(w))

\* one failed attempt of the retry loop that is followed by a sleep; limit
\* bounds the number of attempts of one loop and horizon the clock
GenerateCodeRetry(limit, horizon) ==
  /\ pc.phase = "generating"
  /\ \E err \in GenErrors :
       /\ isRetryable(err)
       /\ LET waitDuration == IF pc.attempt < Len(backoffDurations)
                              THEN backoffDurations[pc.attempt + 1]
                              ELSE maxBackoff
          IN  /\ pc.attempt < limit
              /\ now + waitDuration <= horizon
              /\ pc' = [pc EXCEPT !.attempt = @ + 1]
              /\ sleeps' = Append(sleeps, waitDuration)
              /\ now' = now + waitDuration
              /\ genErr' = err
              /\ genReply' = <<>>
  /\ UNCHANGED <<store, comments, prs, prComments, branches, files, closed,
                 repoEmpty, log, link, probes, faults>>

\* a failed attempt past the attempts and the time that are counted: the
\* loop sleeps the capped duration and tries again, as often as the assistant
\* fails retryably; of such an attempt only the error is kept
GenerateCodeRetryOn(limit, horizon) ==
  /\ pc.phase = "generating"
  /\ \E err \in GenErrors :
       /\ isRetryable(err)
       /\ LET waitDuration == IF pc.attempt < Len(backoffDurations)
                              THEN backoffDurations[pc.attempt + 1]
                              ELSE maxBackoff
          IN  pc.attempt >= limit \/ now + waitDuration > horizon
       /\ genErr' = err
       /\ genReply' = <<>>
  /\ UNCHANGED <<store, comments, prs, prComments, branches, files, closed,
                 repoEmpty, now, pc, log, sleeps, link, probes, faults>>

\* the loop gives up once the listed backoff durations are used up
GenerateCodeGiveUp ==
  /\ pc.phase = "generating"
  /\ \E err \in GenErrors :
       /\ ~isRetryable(err) \/ pc.attempt >= Len(backoffDurations)
       /\ \E w \in Resume(Fail([World EXCEPT !.genErr = err, !.genReply = <<>>],
                               "GenerateCode")) :
            Bounded(w) /\ Commit(w)

GenerateCodeFail ==
  /\ pc.phase = "generating"
  /\ \E err \in GenErrors :
       /\ ~isRetryable(err)
       /\ \E w \in Resume(Fail([World EXCEPT !.genErr = err, !.genReply = <<>>],
                               "GenerateCode")) :
            Bounded(w) /\ Commit(w)

GenerateCodeSucceed ==
  /\ pc.phase = "generating"
  /\ \E codeResponse \in CodeReplies :
       \E f \in FinishImplementation([World EXCEPT !.genErr = <<>>,
                                                   !.genReply = codeResponse],
                                     codeResponse, UsageOf(codeResponse)) :
         \E w \in Resume(f) : Bounded(w) /\ Commit(w)

UserComment(i) ==
  LET mine == SelectSeq(comments[i], LAMBDA c : c.author = User)
  IN  /\ i \notin closed
      /\ Len(mine) < MaxUserComments
      /\ Len(comments[i]) < MaxComments
      /\ comments' = [comments EXCEPT ![i] =
                        Append(@, [author |-> User, body |-> UserBody(Len(mine) + 1),
                                   at |-> now, kind |-> "user", re |-> <<>>,
                                   during |-> store[i].status])]
      /\ log' = EnvLog
      /\ UNCHANGED <<store, prs, prComments, branches, files, closed, repoEmpty,
                     now, pc, sleeps, genErr, genReply, link, probes, faults>>

ReviewComment(i) ==
  /\ prs[i].number # 0
  /\ Len(prComments[i]) < MaxReviewComments
  /\ prComments' = [prComments EXCEPT ![i] =
                      Append(@, [author |-> User,
                                 body |-> ReviewBody(Len(prComments[i]) + 1),
                                 at |-> now])]
  /\ log' = EnvLog
  /\ UNCHANGED <<store, comments, prs, branches, files, closed, repoEmpty,
                 now, pc, sleeps, genErr, genReply, link, probes, faults>>

Tick ==
  /\ \E d \in TickSteps : now + d <= MaxTime /\ now' = now + d
  /\ log' = EnvLog
  /\ UNCHANGED <<store, comments, prs, prComments, branches, files, closed,
                 repoEmpty, pc, sleeps, genErr, genReply, link, probes, faults>>

Next ==
  \/ \E i \in Assigned : Poll(i)
  \/ GenerateCodeRetry(MaxAttempts, MaxTime)
  \/ GenerateCodeFail
  \/ GenerateCodeSucceed
  \/ \E i \in Assigned : UserComment(i)
  \/ \E i \in Assigned : ReviewComment(i)
  \/ Tick

Spec == Init /\ [][Next]_vars

\* the poll loop on a quiet tracker: nobody comments and the clock is
\* advanced by the sleeps of the retry loop only; one more call may fail and
\* the retry loop may run longer
InitQuiet ==
  /\ store = [i \in Issues |-> NoState]
  /\ comments = [i \in Issues |-> <<>>]
  /\ prs = [i \in Issues |-> NoPR]
  /\ prComments = [i \in Issues |-> <<>>]
  /\ branches = {}
  /\ files = {}
  /\ closed = {}
  /\ repoEmpty \in BOOLEAN
  /\ now = 1
  /\ pc = IdlePC
  /\ log = <<>>
  /\ sleeps = <<>>
  /\ genErr = <<>>
  /\ genReply = <<>>
  /\ link = NoLink
  /\ NoProbes
  /\ faults = MaxFaults + 1

NextQuiet ==
  \/ \E i \in Assigned : Poll(i)
  \/ GenerateCodeRetry(MaxRetryAttempts, MaxRetryTime)
  \/ GenerateCodeFail
  \/ GenerateCodeSucceed

SpecQuiet == InitQuiet /\ [][NextQuiet]_vars

\* the assistant does not answer code generation with retryable errors for
\* ever: at some attempt it replies or fails for good
SpecQuietFair == SpecQuiet /\ WF_vars(GenerateCodeFail \/ GenerateCodeSucceed)

\* somebody edits the description of the pull request and the marker is gone
EditedBodies == { <<"text">>, <<"Fixes #", "x", "1">> }

EditPRBody(i) ==
  /\ prs[i].number # 0
  /\ \E body \in EditedBodies :
       /\ body # prs[i].body
       /\ prs' = [prs EXCEPT ![i].body = body]
  /\ log' = EnvLog
  /\ UNCHANGED <<store, comments, prComments, branches, files, closed, repoEmpty,
                 now, pc, sleeps, genErr, genReply, link, probes, faults>>

\* the poll loop with reviewers who comment on the pull request and edit its
\* description; nobody comments on the issue and code generation is not
\* retried
NextReview ==
  \/ \E i \in Assigned : Poll(i)
  \/ GenerateCodeFail
  \/ GenerateCodeSucceed
  \/ \E i \in Assigned : ReviewComment(i)
  \/ \E i \in Assigned : EditPRBody(i)
  \/ Tick

SpecReview == Init /\ [][NextReview]_vars

\* the poll loop with every issue of the repository assigned to the agent,
\* on a quiet tracker; the retry loop of an implementation goes on for as
\* long as the assistant fails retryably
NextFleet ==
  \/ \E i \in Issues : Poll(i)
  \/ GenerateCodeRetry(MaxAttempts, MaxTime)
  \/ GenerateCodeRetryOn(MaxAttempts, MaxTime)
  \/ GenerateCodeFail
  \/ GenerateCodeSucceed

SpecFleet == Init /\ [][NextFleet]_vars

\* every tick of the poll loop calls processIssue for every open issue on
\* its list once the call before has returned, and a retry loop that runs
\* goes on to its next attempt; the assistant is free to fail for ever
SpecFleetFair ==
  /\ SpecFleet
  /\ \A i \in Issues : SF_vars(Poll(i))
  /\ WF_vars(\/ GenerateCodeRetry(MaxAttempts, MaxTime)
             \/ GenerateCodeRetryOn(MaxAttempts, MaxTime)
             \/ GenerateCodeFail
             \/ GenerateCodeSucceed)

\* reconciliation on its own: reconcileStatus is applied, again and again, to
\* a record that waits or is ready, on an issue with any comments
ListedComments ==
  { [author |-> Bot, body |-> <<"Could you clarify", "I'll proceed">>, at |-> 1,
     kind |-> "analysis", re |-> <<>>, during |-> ""],
    [author |-> Bot, body |-> <<"text", "?">>, at |-> 1,
     kind |-> "reply", re |-> <<>>, during |-> ""],
    [author |-> User, body |-> <<"c1">>, at |-> 1,
     kind |-> "user", re |-> <<>>, during |-> ""] }

InitReconcile ==
  /\ \E status \in {"waiting_for_clarification", "ready_to_implement"} :
       store = [i \in Issues |->
                  IF i \in Assigned
                  THEN [NoState EXCEPT !.id = i, !.issue = i, !.status = status,
                                       !.conversation = <<Msg("user", IssueText(i))>>,
                                       !.createdAt = 1, !.updatedAt = 1]
                  ELSE NoState]
  /\ \E n \in 0..MaxListedComments : \E listed \in [1..n -> ListedComments] :
       comments = [i \in Issues |-> IF i \in Assigned THEN listed ELSE <<>>]
  /\ prs = [i \in Issues |-> NoPR]
  /\ prComments = [i \in Issues |-> <<>>]
  /\ branches = {}
  /\ files = {}
  /\ closed = {}
  /\ repoEmpty = FALSE
  /\ now = 2
  /\ pc = IdlePC
  /\ log = <<>>
  /\ sleeps = <<>>
  /\ genErr = <<>>
  /\ genReply = <<>>
  /\ link = NoLink
  /\ NoProbes
  /\ faults = MaxFaults

Reconcile(i) ==
  /\ store[i].id # 0
  /\ \E w \in reconcileStatus(Ev([World EXCEPT !.log = <<>>], "reconcileStatus",
                                  ToString(i)), i, GetState(World, i)) :
       Bounded(w) /\ Commit(w)

NextReconcile == \E i \in Assigned : Reconcile(i)

SpecReconcile == InitReconcile /\ [][NextReconcile]_vars

\* the link between pull request and issue on its own: a body is built as
\* StartImplementation builds it, for any issue number and any summary, and
\* read back as HandlePRComment reads it
SummaryTokens == {"Fixes #", "7", "x"}

Summaries ==
  UNION { [1..n -> SummaryTokens] : n \in 0..MaxSummaryLen }

InitLink ==
  /\ store = [i \in Issues |-> NoState]
  /\ comments = [i \in Issues |-> <<>>]
  /\ prs = [i \in Issues |-> NoPR]
  /\ prComments = [i \in Issues |-> <<>>]
  /\ branches = {}
  /\ files = {}
  /\ closed = {}
  /\ repoEmpty = FALSE
  /\ now = 1
  /\ pc = IdlePC
  /\ log = <<>>
  /\ sleeps = <<>>
  /\ genErr = <<>>
  /\ genReply = <<>>
  /\ faults = 0
  /\ NoProbes
  /\ \E issueNumber \in 1..MaxIssueNumber, summary \in Summaries :
       link = [step |-> "input", issue |-> issueNumber, summary |-> summary,
               body |-> <<>>, found |-> 0]

BuildPRBody ==
  /\ link.step = "input"
  /\ link' = [link EXCEPT !.step = "built",
                          !.body = PRBody(link.issue, link.summary)]
  /\ UNCHANGED <<store, comments, prs, prComments, branches, files, closed,
                 repoEmpty, now, pc, log, sleeps, genErr, genReply, probes, faults>>

FindIssueNumber ==
  /\ link.step = "built"
  /\ link' = [link EXCEPT !.step = "found",
                          !.found = extractIssueNumber(link.body)]
  /\ UNCHANGED <<store, comments, prs, prComments, branches, files, closed,
                 repoEmpty, now, pc, log, sleeps, genErr, genReply, probes, faults>>

NextLink == BuildPRBody \/ FindIssueNumber

SpecLink == InitLink /\ [][NextLink]_vars

\* ------------------------------------------------------- webhook ingress
\* the accounts that comment; "bot" is one token of the text of a login
Logins == {Bot, User, "dependabot"}

LoginText(login) ==
  CASE login = "dependabot" -> <<"dependa", "bot">>
    [] OTHER -> <<login>>

HookActions == {"created", "edited"}

\* the test of the ingress for a comment of the agent itself
ignoresAuthor(commentAuthor) ==
  Contains(ToLower(LoginText(commentAuthor)), "bot")

\* a delivery is logged with its event type, its action and the login of its
\* payload: the author of the comment, or the assignee of an issues event
Delivered(w, eventType, action, author) ==
  Ev(Ev(Ev([w EXCEPT !.log = <<>>], "webhook", eventType), "action", action),
     "author", author)

handleIssuesEvent(w, i, action, assignee) ==
  LET w1 == Delivered(w, "issues", action, assignee)
  IN  IF action = "assigned"
      THEN { Suspend(h, "webhook", <<>>) :
               h \in HandleIssueAssignment(Ev(w1, "cb", "issue"), i) }
      ELSE { Ret(w1, "nil") }

handleIssueCommentEvent(w, i, action, commentAuthor, commentBody) ==
  LET w1 == Delivered(w, "issue_comment", action, commentAuthor)
  IN  IF action = "created"
      THEN IF ignoresAuthor(commentAuthor) THEN { Ret(w1, "nil") }
           ELSE { Suspend(h, "webhook", <<>>) :
                    h \in HandleIssueComment(Ev(w1, "cb", "comment"), i, commentBody) }
      ELSE { Ret(w1, "nil") }

handlePRCommentEvent(w, prNumber, action, commentAuthor, commentBody) ==
  LET w1 == Delivered(w, "pull_request_review_comment", action, commentAuthor)
  IN  IF action = "created"
      THEN IF ignoresAuthor(commentAuthor) THEN { Ret(w1, "nil") }
           ELSE HandlePRComment(Ev(w1, "cb", "review"), prNumber, commentBody)
      ELSE { Ret(w1, "nil") }

\* the tracker delivers an issues event; the issue is assigned to the agent
\* until the agent has a record of it
IssuesEvent(i) ==
  /\ pc.phase = "idle"
  /\ i \notin closed
  /\ store[i].id = 0
  /\ \E action \in {"assigned", "labeled"} :
       \E w \in handleIssuesEvent(World, i, action, Bot) : Bounded(w) /\ Commit(Done(w))

\* somebody other than the agent comments on the issue and the tracker
\* delivers the event
IssueCommentCreated(i) ==
  LET others == SelectSeq(comments[i], LAMBDA c : c.author # Bot)
  IN  /\ pc.phase = "idle"
      /\ i \notin closed
      /\ Len(others) < MaxUserComments
      /\ \E author \in Logins \ {Bot} :
           LET body == UserBody(Len(others) + 1)
               said == [World EXCEPT !.comments[i] =
                          Append(@, [author |-> author, body |-> body, at |-> now,
                                     kind |-> "user", re |-> <<>>,
                                     during |-> store[i].status])]
           IN  \E w \in handleIssueCommentEvent(said, i, "created", author, body) :
                 Bounded(w) /\ Commit(Done(w))

\* the tracker delivers an event about a comment that is on the issue: the
\* last one, which the agent has created, or one that was edited
IssueCommentEvent(i) ==
  /\ pc.phase = "idle"
  /\ i \notin closed
  /\ \E k \in 1..Len(comments[i]), action \in HookActions :
       /\ action = "created" => k = Len(comments[i]) /\ comments[i][k].author = Bot
       /\ \E w \in handleIssueCommentEvent(World, i, action, comments[i][k].author,
                                           comments[i][k].body) :
            Bounded(w) /\ Commit(Done(w))

\* somebody comments on the pull request, or edits a comment there, and the
\* tracker delivers the event
PRCommentEvent(i) ==
  /\ pc.phase = "idle"
  /\ prs[i].number # 0
  /\ \/ /\ Len(prComments[i]) < MaxReviewComments
        /\ \E author \in Logins \ {Bot} :
             LET body == ReviewBody(Len(prComments[i]) + 1)
                 said == [World EXCEPT !.prComments[i] =
                            Append(@, [author |-> author, body |-> body, at |-> now])]
             IN  \E w \in handlePRCommentEvent(said, prs[i].number, "created",
                                               author, body) :
                   Bounded(w) /\ Commit(Done(w))
     \/ \E k \in 1..Len(prComments[i]) :
          \E w \in handlePRCommentEvent(World, prs[i].number, "edited",
                                        prComments[i][k].author, prComments[i][k].body) :
            Bounded(w) /\ Commit(Done(w))

\* webhook mode: the handlers run when the events are delivered, one after
\* the other
NextWebhook ==
  \/ \E i \in Assigned : IssuesEvent(i)
  \/ \E i \in Assigned : IssueCommentCreated(i)
  \/ \E i \in Assigned : IssueCommentEvent(i)
  \/ \E i \in Assigned : PRCommentEvent(i)
  \/ GenerateCodeFail
  \/ GenerateCodeSucceed

\* webhook mode on a repository that has commits
InitWebhook ==
  /\ store = [i \in Issues |-> NoState]
  /\ comments = [i \in Issues |-> <<>>]
  /\ prs = [i \in Issues |-> NoPR]
  /\ prComments = [i \in Issues |-> <<>>]
  /\ branches = {}
  /\ files = {}
  /\ closed = {}
  /\ repoEmpty = FALSE
  /\ now = 1
  /\ pc = IdlePC
  /\ log = <<>>
  /\ sleeps = <<>>
  /\ genErr = <<>>
  /\ genReply = <<>>
  /\ link = NoLink
  /\ NoProbes
  /\ faults = MaxFaults

SpecWebhook == InitWebhook /\ [][NextWebhook]_vars

\* the issues events of a repository whose issues are assigned to the agent
\* or to somebody else: the tracker delivers them all to the ingress
Assignees == {Bot, User}

IssuesEventOf(i, assignee) ==
  /\ pc.phase = "idle"
  /\ i \notin closed
  /\ store[i].id = 0
  /\ \E action \in {"assigned", "unassigned", "labeled"} :
       \E w \in handleIssuesEvent(World, i, action, assignee) :
         Bounded(w) /\ Commit(Done(w))

NextIngress ==
  \/ \E i \in Issues, assignee \in Assignees : IssuesEventOf(i, assignee)
  \/ GenerateCodeFail
  \/ GenerateCodeSucceed

SpecIngress == InitWebhook /\ [][NextIngress]_vars

\* --------------------------------------------------- the table on its own
\* handlers that run at the same time read a State and save it, each SQL
\* statement on its own; the rows of agent_states are kept in the order of
\* their insertion
Handlers == {1, 2}
SavedStatuses == {"waiting_for_clarification", "ready_to_implement"}
MaxSaves == 3

KeyRows(rows, issue) == { k \in 1..Len(rows) : rows[k].issue = issue }

\* SELECT ... WHERE owner = ? AND repo = ? AND issue_number = ?
SelectState(table, issue) ==
  IF KeyRows(table.rows, issue) = {} THEN NoState
  ELSE LET row == table.rows[CHOOSE k \in KeyRows(table.rows, issue) : TRUE]
       IN  [NoState EXCEPT !.id = row.id, !.issue = row.issue, !.status = row.status,
                           !.createdAt = row.createdAt, !.updatedAt = row.updatedAt]

\* INSERT OR REPLACE: the row in conflict is deleted and a new one inserted
UpsertReplaces(table, excluded) ==
  [rows |-> Append(SelectSeq(table.rows, LAMBDA r : r.issue # excluded.issue),
                   [excluded EXCEPT !.id = table.seq + 1]),
   seq |-> table.seq + 1]

\* INSERT ... ON CONFLICT(owner, repo, issue_number) DO UPDATE SET ...: id
\* and created_at are not among the columns that are set
Upsert(table, excluded) ==
  IF KeyRows(table.rows, excluded.issue) = {}
  THEN [rows |-> Append(table.rows, [excluded EXCEPT !.id = table.seq + 1]),
        seq |-> table.seq + 1]
  ELSE [table EXCEPT !.rows =
          [k \in 1..Len(table.rows) |->
             IF table.rows[k].issue = excluded.issue
             THEN [table.rows[k] EXCEPT !.status = excluded.status,
                                        !.updatedAt = excluded.updatedAt]
             ELSE table.rows[k]]]

InitStore ==
  /\ store = [i \in Issues |-> NoState]
  /\ comments = [i \in Issues |-> <<>>]
  /\ prs = [i \in Issues |-> NoPR]
  /\ prComments = [i \in Issues |-> <<>>]
  /\ branches = {}
  /\ files = {}
  /\ closed = {}
  /\ repoEmpty = FALSE
  /\ now = 1
  /\ pc = IdlePC
  /\ log = <<>>
  /\ sleeps = <<>>
  /\ genErr = <<>>
  /\ genReply = <<>>
  /\ link = NoLink
  /\ db = NoDB
  /\ savers = [h \in Handlers |-> [step |-> "idle", state |-> NoState]]
  /\ parse = NoParse
  /\ pages = NoPages
  /\ faults = 0

\* a handler reads the State of an issue, or makes a new one when there is
\* no row
LoadState(h, i) ==
  /\ savers[h].step = "idle"
  /\ LET found == SelectState(db, i)
     IN  savers' = [savers EXCEPT ![h] =
                      [step |-> "loaded",
                       state |-> IF found.id = 0
                                 THEN [NoState EXCEPT !.issue = i, !.status = "analyzing"]
                                 ELSE found]]
  /\ UNCHANGED <<store, comments, prs, prComments, branches, files, closed,
                 repoEmpty, now, pc, log, sleeps, genErr, genReply, link, db,
                 parse, pages, faults>>

\* StateManager.SaveState of a handler, with the status the handler has set
SaveLoaded(h) ==
  /\ savers[h].step \in {"loaded", "saved"}
  /\ now <= MaxSaves
  /\ \E status \in SavedStatuses :
       LET state == [savers[h].state EXCEPT
                       !.status = status,
                       !.createdAt = IF @ = 0 THEN now ELSE @,
                       !.updatedAt = now]
           excluded == [id |-> 0, issue |-> state.issue, status |-> state.status,
                        createdAt |-> state.createdAt, updatedAt |-> state.updatedAt]
           saved == Upsert(db, excluded)
       IN  /\ db' = saved
           /\ savers' = [savers EXCEPT ![h] =
                           [step |-> "saved",
                            state |-> IF state.id = 0
                                      THEN [state EXCEPT !.id = saved.seq]
                                      ELSE state]]
  /\ now' = now + 1
  /\ UNCHANGED <<store, comments, prs, prComments, branches, files, closed,
                 repoEmpty, pc, log, sleeps, genErr, genReply, link, parse,
                 pages, faults>>

\* the handler returns
Return(h) ==
  /\ savers[h].step \in {"loaded", "saved"}
  /\ savers' = [savers EXCEPT ![h] = [step |-> "idle", state |-> NoState]]
  /\ UNCHANGED <<store, comments, prs, prComments, branches, files, closed,
                 repoEmpty, now, pc, log, sleeps, genErr, genReply, link, db,
                 parse, pages, faults>>

NextStore ==
  \/ \E h \in Handlers, i \in Issues : LoadState(h, i)
  \/ \E h \in Handlers : SaveLoaded(h)
  \/ \E h \in Handlers : Return(h)

SpecStore == InitStore /\ [][NextStore]_vars

\* ------------------------------------------- deliveries handled at once
\* every delivery is handled in a goroutine of its own: a handler reads the
\* State when it starts, and the rest of it runs later on the State it has
\* read, whatever the other handler has saved meanwhile
FirstQuestion == <<"text", "?">>

WaitingRecord(i) ==
  [AddTurn(AddUsage([NoState EXCEPT !.issue = i,
                                    !.conversation = <<Msg("user", IssueText(i))>>],
                    UsageOf(FirstQuestion)),
           "assistant", FirstQuestion)
     EXCEPT !.id = 1, !.status = "waiting_for_clarification",
            !.createdAt = 1, !.updatedAt = 1]

IdleHandler == [step |-> "idle", state |-> NoState, body |-> <<>>]

\* webhook mode after the issue was analysed and the agent has asked
InitRace ==
  /\ store = [i \in Issues |-> IF i \in Assigned THEN WaitingRecord(i) ELSE NoState]
  /\ comments = [i \in Issues |->
                   IF i \in Assigned
                   THEN << [author |-> Bot, body |-> AnalysisComment(FirstQuestion),
                            at |-> 0, kind |-> "analysis", re |-> <<>>,
                            during |-> ""] >>
                   ELSE <<>>]
  /\ prs = [i \in Issues |-> NoPR]
  /\ prComments = [i \in Issues |-> <<>>]
  /\ branches = {}
  /\ files = {}
  /\ closed = {}
  /\ repoEmpty = FALSE
  /\ now = 2
  /\ pc = IdlePC
  /\ log = <<>>
  /\ sleeps = <<>>
  /\ genErr = <<>>
  /\ genReply = <<>>
  /\ link = NoLink
  /\ db = NoDB
  /\ savers = [h \in Handlers |-> IdleHandler]
  /\ parse = NoParse
  /\ pages = NoPages
  /\ faults = MaxFaults

\* somebody comments on the issue, the event is delivered and its handler
\* starts: HandleIssueComment reads the State
StartHandler(h, i) ==
  LET others == SelectSeq(comments[i], LAMBDA c : c.author # Bot)
      body == UserBody(Len(others) + 1)
  IN  /\ savers[h].step = "idle"
      /\ i \notin closed
      /\ Len(others) < MaxUserComments
      /\ Len(comments[i]) < MaxComments
      /\ comments' = [comments EXCEPT ![i] =
                        Append(@, [author |-> User, body |-> body, at |-> now,
                                   kind |-> "user", re |-> <<>>,
                                   during |-> store[i].status])]
      /\ savers' = [savers EXCEPT ![h] =
                      [step |-> "loaded", state |-> GetState(World, i), body |-> body]]
      /\ UNCHANGED <<store, prs, prComments, branches, files, closed, repoEmpty,
                     now, pc, log, sleeps, genErr, genReply, link, db, parse,
                     pages, faults>>

\* the store as a handler leaves it: only SaveState writes the row
Written(w, i) ==
  IF \E k \in 1..Len(w.log) : w.log[k][1] = "save" THEN w
  ELSE [w EXCEPT !.store[i] = store[i]]

\* the rest of the handler, on the State it has read
FinishHandler(h) ==
  LET i == savers[h].state.issue
      read == [World EXCEPT !.store[i] = savers[h].state, !.now = now + 1]
  IN  /\ savers[h].step = "loaded"
      /\ pc.phase = "idle"
      /\ \E w \in handleIssueCommentEvent(read, i, "created", User, savers[h].body) :
           Bounded(w) /\ CommitWorld(Written(Done(w), i))
      /\ savers' = [savers EXCEPT ![h] = IdleHandler]
      /\ UNCHANGED <<db, parse, pages>>

NextRace ==
  \/ \E h \in Handlers, i \in Assigned : StartHandler(h, i)
  \/ \E h \in Handlers : FinishHandler(h)
  \/ GenerateCodeFail
  \/ GenerateCodeSucceed

SpecRace == InitRace /\ [][NextRace]_vars

\* -------------------------------------------------- the parser on its own
\* a reply of the assistant is parsed as StartImplementation parses it, and
\* its summary is extracted; the replies are made of pieces of text and of
\* fenced blocks, or they are objects of the structured dialect, alone or
\* with text after them
MaxChunks == 2
MaxFiles == 2

Chunks ==
  { <<"summary">>,
    <<"'''">>,
    <<"'''go a.go", "package a", "'''">>,
    <<"'''go Makefile", "x := 1'''">>,
    <<"'''go cmd/run", "x := 1", "'''">>,
    <<"File: Makefile", "'''go", "x := 1'''">>,
    <<"path: 'b.go'", "'''go", "package b", "'''">>,
    <<"a.go", "'''go", "x := 1'''">>,
    <<"cmd/run", "'''", "x := 1'''">> }

RECURSIVE Flatten(_)
Flatten(chunks) ==
  IF chunks = <<>> THEN <<>> ELSE Head(chunks) \o Flatten(Tail(chunks))

MarkdownReplies ==
  { Flatten(chunks) : chunks \in UNION { [1..n -> Chunks] : n \in 0..MaxChunks } }

JSONReplies ==
  LET summaries == {<<>>} \cup { <<line>> : line \in SummaryLines }
      arrays == {<<>>} \cup
                { <<"files: [">> \o entries \o <<"]">> :
                    entries \in UNION { [1..n -> FileEntries] : n \in 0..MaxFiles } }
  IN  { <<"{">> \o summary \o array \o <<"}">> :
          summary \in summaries, array \in arrays }

ParseInputs ==
  MarkdownReplies \cup JSONReplies \cup { Append(json, "text") : json \in JSONReplies }

InitParse ==
  /\ store = [i \in Issues |-> NoState]
  /\ comments = [i \in Issues |-> <<>>]
  /\ prs = [i \in Issues |-> NoPR]
  /\ prComments = [i \in Issues |-> <<>>]
  /\ branches = {}
  /\ files = {}
  /\ closed = {}
  /\ repoEmpty = FALSE
  /\ now = 1
  /\ pc = IdlePC
  /\ log = <<>>
  /\ sleeps = <<>>
  /\ genErr = <<>>
  /\ genReply = <<>>
  /\ link = NoLink
  /\ db = NoDB
  /\ savers = <<>>
  /\ \E response \in ParseInputs :
       parse = [NoParse EXCEPT !.step = "input", !.response = response]
  /\ pages = NoPages
  /\ faults = 0

\* fileChanges := parseCodeChanges(codeResponse)
ParseReply ==
  /\ parse.step = "input"
  /\ LET run == ParseRun(parse.response)
         markdown == MarkdownRun(parse.response)
         fenced == Contains(run.calls, "tryParseMarkdown")
     IN  parse' = [parse EXCEPT !.step = "parsed",
                                !.changes = run.changes,
                                !.calls = run.calls,
                                !.tried = IF fenced THEN markdown.tried ELSE <<>>,
                                !.matches = IF fenced THEN markdown.matches
                                            ELSE <<0, 0, 0>>,
                                !.accepted = IF fenced THEN markdown.accepted
                                             ELSE <<0, 0, 0>>]
  /\ UNCHANGED <<store, comments, prs, prComments, branches, files, closed,
                 repoEmpty, now, pc, log, sleeps, genErr, genReply, link, db,
                 savers, pages, faults>>

\* summary := extractSummary(codeResponse, fileChanges)
SummariseReply ==
  /\ parse.step = "parsed"
  /\ \E summary \in extractSummary(parse.response, parse.changes) :
       parse' = [parse EXCEPT !.step = "summarised", !.summary = summary]
  /\ UNCHANGED <<store, comments, prs, prComments, branches, files, closed,
                 repoEmpty, now, pc, log, sleeps, genErr, genReply, link, db,
                 savers, pages, faults>>

NextParse == ParseReply \/ SummariseReply

SpecParse == InitParse /\ [][NextParse]_vars

\* ------------------------------------------------ the listings on their own
\* a listing of the tracker client is called on a collection of the tracker
\* that has any number of items; the tracker answers a request with one page
\* of the collection and the number of the next page
PerPage == 100
MaxItems == 101

Listings == {"ListIssueComments", "ListPRComments", "ListRepositoryIssues"}

\* the page of a collection of total items that a request for this page gets
PageOf(total, page, perPage) ==
  [items |-> { n \in 1..total : (page - 1) * perPage < n /\ n <= page * perPage },
   NextPage |-> IF total > page * perPage THEN page + 1 ELSE 0]

InitPages ==
  /\ store = [i \in Issues |-> NoState]
  /\ comments = [i \in Issues |-> <<>>]
  /\ prs = [i \in Issues |-> NoPR]
  /\ prComments = [i \in Issues |-> <<>>]
  /\ branches = {}
  /\ files = {}
  /\ closed = {}
  /\ repoEmpty = FALSE
  /\ now = 1
  /\ pc = IdlePC
  /\ log = <<>>
  /\ sleeps = <<>>
  /\ genErr = <<>>
  /\ genReply = <<>>
  /\ link = NoLink
  /\ db = NoDB
  /\ savers = <<>>
  /\ parse = NoParse
  /\ \E listing \in Listings, total \in 0..MaxItems :
       \E pulls \in {{}, {1} \cap 1..total, {total} \cap 1..total} :
         /\ listing # "ListRepositoryIssues" => pulls = {}
         /\ pages = [step |-> "called", listing |-> listing, total |-> total,
                     pulls |-> pulls, items |-> {}, NextPage |-> 0, result |-> {}]
  /\ faults = 0

\* the one request of a listing: the first page, with PerPage items at most
RequestPage ==
  /\ pages.step = "called"
  /\ LET page == PageOf(pages.total, 1, PerPage)
     IN  pages' = [pages EXCEPT !.step = "answered", !.items = page.items,
                                !.NextPage = page.NextPage]
  /\ UNCHANGED <<store, comments, prs, prComments, branches, files, closed,
                 repoEmpty, now, pc, log, sleeps, genErr, genReply, link, db,
                 savers, parse, faults>>

\* the listing returns what the request has got; of the issues, the ones
\* that are not pull requests
ReturnListing ==
  /\ pages.step = "answered"
  /\ pages' = [pages EXCEPT !.step = "returned",
                            !.result = pages.items \ pages.pulls]
  /\ UNCHANGED <<store, comments, prs, prComments, branches, files, closed,
                 repoEmpty, now, pc, log, sleeps, genErr, genReply, link, db,
                 savers, parse, faults>>

NextPages == RequestPage \/ ReturnListing

SpecPages == InitPages /\ [][NextPages]_vars

\* ---------------------------------------------------------------- claims
\* the events a step adds to the log
NewEvents ==
  IF pc.phase = "idle" THEN log' ELSE SubSeq(log', Len(log) + 1, Len(log'))

\* a step that is one processIssue call for issue i, up to its return or its
\* retry loop
IsPoll(i) == pc.phase = "idle" /\ log' # <<>> /\ log'[1] = <<"poll", ToString(i)>>

\* the issue a step of the poll loop works on (0: an environment step)
StepIssue ==
  IF pc.phase = "generating" THEN pc.issue
  ELSE IF \E i \in Issues : IsPoll(i) THEN CHOOSE i \in Issues : IsPoll(i)
  ELSE 0

Count(seq, Test(_)) == Cardinality({ k \in 1..Len(seq) : Test(seq[k]) })

Logged(events, kind, arg) == \E k \in 1..Len(events) : events[k] = <<kind, arg>>

IsPrefix(s, t) == Len(s) <= Len(t) /\ SubSeq(t, 1, Len(s)) = s

\* the errors of code generation that are rate limits or server errors
RetryableErrors ==
  { e \in GenErrors : Contains(e, "429") \/ Contains(e, "Bad Gateway") }

\* C9: the sleeps of one retry loop are 60, 120, 240 and then 240 seconds for
\* every further retry (the k-th is min(60 * 2^(k-1), 240)), there is one
\* sleep per retryable failure, and a loop whose first attempt fails with a
\* non-retryable error has slept not at all
RetryBackoff ==
  [][ /\ \A k \in 1..Len(sleeps') :
           sleeps'[k] = (IF 60 * 2^(k - 1) < 240 THEN 60 * 2^(k - 1) ELSE 240)
      /\ (pc'.phase = "generating" => Len(sleeps') = pc'.attempt)
      /\ (pc.phase = "generating" /\ pc.attempt = 0
             /\ genErr' # <<>> /\ genErr' \notin RetryableErrors
          => sleeps' = <<>> /\ now' = now) ]_vars

RetryBackoffWitness ==
  pc.phase = "generating" /\ sleeps = <<60, 120, 240, 240, 240>>

\* C10: a step of the retry loop either sleeps and tries again (after a
\* retryable error, whatever the number of attempts so far, and without
\* touching the record), or leaves the loop with a reply and goes on with the
\* implementation, or leaves it with a non-retryable error, which is returned
\* with the record still implementing; and the loop is left once the
\* assistant stops answering with retryable errors
RetryLoopExits ==
  /\ [][ pc.phase = "generating" =>
          \/ /\ genErr' \in RetryableErrors
             /\ pc' = [pc EXCEPT !.attempt = @ + 1]
             /\ Len(sleeps') = Len(sleeps) + 1
             /\ store' = store /\ comments' = comments /\ log' = log
          \/ /\ genErr' = <<>>
             /\ NewEvents # <<>>
             /\ ~Logged(NewEvents, "err", "GenerateCode")
             /\ sleeps' = sleeps
          \/ /\ genErr' # <<>> /\ genErr' \notin RetryableErrors
             /\ NewEvents[1] = <<"err", "GenerateCode">>
             /\ store'[pc.issue].status = "implementing"
             /\ sleeps' = sleeps
             /\ (pc.caller # "comment" =>
                   /\ NewEvents = << <<"err", "GenerateCode">>, <<"return", "error">> >>
                   /\ store' = store /\ comments' = comments) ]_vars
  /\ (pc.phase = "generating" ~> pc.phase = "idle")

RetryLoopExitsWitness ==
  /\ pc.phase = "idle"
  /\ genErr # <<>> /\ genErr \notin RetryableErrors
  /\ Len(sleeps) = 4
  /\ store[1].status = "implementing"
  /\ Logged(log, "return", "error")

\* C8: a processIssue call that reads a record in implementing leaves the
\* record and the issue alone and dispatches no callback when updatedAt is
\* at most 600 seconds old; when it is older, the call resets the status to
\* ready_to_implement, saves it (the save is done unless the store fails) and
\* then dispatches the implementation callback, all in the same call
StuckRecoveryPastThreshold ==
  [][ \A i \in Issues :
        (IsPoll(i) /\ store[i].status = "implementing"
           /\ log'[2] # <<"err", "GetState">>)
        => IF now - store[i].updatedAt <= 600
           THEN /\ store' = store /\ comments' = comments /\ pc' = pc
                /\ Count(log', LAMBDA e : e[1] = "cb") = 0
                /\ Logged(log', "return", "nil")
           ELSE /\ Len(log') >= 4
                /\ log'[2] = <<"stuck", "reset">>
                /\ log'[3] \in { <<"save", "ready_to_implement">>,
                                 <<"err", "SaveState">> }
                /\ log'[4] = <<"cb", "implementation">> ]_vars

StuckRecoveryWitness ==
  /\ Len(log) >= 4
  /\ log[2] = <<"stuck", "reset">>
  /\ log[3] = <<"save", "ready_to_implement">>
  /\ log[4] = <<"cb", "implementation">>
  /\ now - store[1].createdAt = 601

\* C5: once a record holds a non-empty branchName, no step changes it, no
\* step calls branch creation for the issue again, and a run of
\* implementation that gets as far as its branch works on that branch
BranchNameStable ==
  [][ \A i \in Issues :
        (store[i].branchName # "" /\ StepIssue = i)
        => /\ store'[i].branchName = store[i].branchName
           /\ ~Logged(NewEvents, "call", "CreateBranch")
           /\ \A k \in 1..Len(NewEvents) :
                NewEvents[k][1] = "reuse" => NewEvents[k][2] = store[i].branchName
           /\ (pc'.phase = "generating" =>
                 pc'.branchName = store[i].branchName) ]_vars

BranchNameStableWitness ==
  /\ store[1].branchName = BranchFor(1)
  /\ Logged(log, "stuck", "reset")
  /\ Logged(log, "reuse", BranchFor(1))
  /\ pc.phase = "generating"

\* C6: every step leaves each record with a conversation that has the
\* conversation the record held before the step as a prefix
ConversationAppendOnly ==
  [][ \A i \in Issues :
        IsPrefix(store[i].conversation, store'[i].conversation) ]_vars

ConversationAppendOnlyWitness ==
  LET conv == store[1].conversation
  IN  /\ Len(conv) >= 6
      /\ \E k \in 1..Len(conv) : conv[k] = Msg("user", UserBody(1))
      /\ \E k \in 1..Len(conv) :
           conv[k] = Msg("user", <<"Review feedback:">> \o ReviewBody(1))

\* C7: no step lowers the input-token, output-token or cost total of a
\* record
UsageTotalsMonotone ==
  [][ \A i \in Issues :
        /\ store'[i].totalIn >= store[i].totalIn
        /\ store'[i].totalOut >= store[i].totalOut
        /\ store'[i].totalCost >= store[i].totalCost ]_vars

UsageTotalsMonotoneWitness ==
  /\ store[1].totalIn = 6
  /\ store[1].totalOut = 7
  /\ store[1].totalCost = 3
  /\ store[1].status = "reviewing"

\* the statuses a step saves for its issue, in order, after the status the
\* record held before the step, as the set of moves from one to the next
StatusMoves ==
  IF StepIssue = 0 THEN {}
  ELSE LET saves == SelectSeq(NewEvents, LAMBDA e : e[1] = "save")
           path == <<store[StepIssue].status>> \o [k \in 1..Len(saves) |-> saves[k][2]]
       IN  { <<path[k], path[k + 1]>> : k \in { j \in 1..Len(saves) : path[j] # path[j + 1] } }

\* the moves along analyzing -> waiting_for_clarification |
\* ready_to_implement -> implementing -> pr_created | completed, reviewing
\* from pr_created, the reconciliation reset and the stuck-recovery reset
ForwardAndResetMoves ==
  { <<"", "waiting_for_clarification">>,
    <<"", "ready_to_implement">>,
    <<"waiting_for_clarification", "ready_to_implement">>,
    <<"ready_to_implement", "implementing">>,
    <<"implementing", "pr_created">>,
    <<"implementing", "completed">>,
    <<"pr_created", "reviewing">>,
    <<"implementing", "ready_to_implement">> }

OneAnalysisComment ==
  \A i \in Issues :
    LET n == Count(comments[i], LAMBDA c : c.kind = "analysis")
    IN  n <= 1 /\ (store[i].id # 0 => n = 1)

\* C3, as stated: a comment of somebody else that was created while the
\* record was waiting_for_clarification is never answered by more than one
\* reply comment and never appears as more than one user turn of the
\* persisted conversation
OneReplyPerComment ==
  \A i \in Issues : \A k \in 1..Len(comments[i]) :
    LET c == comments[i][k]
    IN  (c.author # Bot /\ c.during = "waiting_for_clarification")
        => /\ Count(comments[i], LAMBDA r : r.kind = "reply" /\ r.re = c.body) <= 1
           /\ Count(store[i].conversation, LAMBDA m : m = Msg("user", c.body)) <= 1

\* C4, as stated: in the log of a processIssue call a failed store read or
\* write is followed by the return of the error and by nothing else
StoreErrorsAreFatal ==
  \A k \in 1..Len(log) :
    log[k] \in { <<"err", "SaveState">>, <<"err", "GetState">> }
    => /\ Len(log) = k + 1
       /\ log[k + 1] = <<"return", "error">>

\* the events a step of the retry loop adds up to the return of the handler
\* that ran the loop
RunEvents ==
  LET stops == { k \in 1..Len(NewEvents) : NewEvents[k][1] \in {"new", "cb", "cberr", "return"} }
      stop == IF stops = {} THEN Len(NewEvents) + 1
              ELSE CHOOSE k \in stops : \A m \in stops : k <= m
  IN  [run |-> SubSeq(NewEvents, 1, stop - 1),
       after |-> IF stops = {} THEN <<"", "">> ELSE NewEvents[stop]]

\* C11: an implementation whose code-generation reply parses to an empty
\* change set writes no file and opens no pull request and posts at most one
\* comment; when its tracker and store calls succeed it posts exactly one
\* comment, which carries the reply as it came, then saves the record as
\* waiting_for_clarification and returns without error
EmptyChangeSetAsksForReview ==
  [][ (pc.phase = "generating" /\ NewEvents # <<>> /\ genReply' # <<>>
         /\ DOMAIN parseCodeChanges(genReply') = {})
      => LET i == pc.issue
             run == RunEvents.run
             after == RunEvents.after
         IN  /\ files' = files /\ prs' = prs /\ branches' = branches
             /\ \A k \in 1..Len(run) :
                  run[k] \notin { <<"write", BranchFor(i)>>, <<"write", "main">>,
                                  <<"call", "CreatePullRequest">> }
             /\ Count(run, LAMBDA e : e[1] = "post") <= 1
             /\ (Count(run, LAMBDA e : e[1] = "err") = 0
                  => /\ run = << <<"post", "empty">>,
                                 <<"save", "waiting_for_clarification">> >>
                     /\ Len(comments'[i]) > Len(comments[i])
                     /\ comments'[i][Len(comments[i]) + 1].author = Bot
                     /\ comments'[i][Len(comments[i]) + 1].body
                          = <<"I attempted to implement this issue, but couldn't generate files in the correct format.">>
                              \o genReply'
                              \o <<"Could you please review this and let me know if you need me to try again?",
                                    "NyteBubo">>
                     /\ after \in { <<"return", "nil">>, <<"new", "c1">>,
                                    <<"new", "c2">>, <<"new", "c3">> }
                     /\ (after = <<"return", "nil">>
                           => store'[i].status = "waiting_for_clarification")) ]_vars

EmptyChangeSetAsksForReviewWitness ==
  /\ genReply = <<"text">>
  /\ store[1].status = "waiting_for_clarification"
  /\ store[1].totalOut = 3
  /\ Last(comments[1]).kind = "empty"
  /\ Last(log) = <<"return", "nil">>
  /\ Count(log, LAMBDA e : e[1] = "err") = 0
  /\ files = {} /\ prs[1] = NoPR

\* C12, as stated: in every reachable state, an issue whose record is
\* completed carries the summary comment of the direct commit, is closed and
\* has no pull request
CompletedIsAnnouncedAndClosed ==
  \A i \in Issues :
    store[i].status = "completed"
    => /\ Count(comments[i], LAMBDA c : c.kind = "completed") >= 1
       /\ i \in closed
       /\ prs[i] = NoPR

\* C13: a record holds a pull request number exactly when its status is
\* pr_created or reviewing, the number is the one of the pull request opened
\* for its issue, and such a record holds a branch name; the step that saves
\* pr_created saves the number with it, and the comment that links the pull
\* request is posted after that save only
PullRequestRecorded ==
  /\ [](\A i \in Issues :
          /\ (store[i].status \in {"pr_created", "reviewing"}
                => /\ store[i].prNumber # 0
                   /\ store[i].prNumber = prs[i].number
                   /\ store[i].branchName # "")
          /\ (store[i].prNumber # 0
                => store[i].status \in {"pr_created", "reviewing"}))
  /\ [][ \A k \in 1..Len(NewEvents) :
           /\ (NewEvents[k] = <<"save", "pr_created">>
                 => /\ store[StepIssue].prNumber = 0
                    /\ store'[StepIssue].prNumber = PRNumberFor(StepIssue)
                    /\ \A m \in 1..(k - 1) : NewEvents[m] # <<"post", "pr">>)
           /\ (NewEvents[k] = <<"post", "pr">>
                 => k > 1 /\ NewEvents[k - 1] = <<"save", "pr_created">>) ]_vars

PullRequestRecordedWitness ==
  /\ store[1].status = "pr_created"
  /\ store[1].prNumber = PRNumberFor(1)
  /\ store[1].branchName = BranchFor(1)
  /\ Last(comments[1]).body = PRLinkComment(PRNumberFor(1))
  /\ Logged(log, "save", "pr_created")
  /\ Last(log) = <<"return", "nil">>

\* C14: the issue number read back from the pull request body built for
\* issue N is N, for every N from 1 on and every summary, also one that holds
\* markers of other issues or starts with digits
LinkRoundTrips ==
  link.step = "found" => link.found = link.issue

LinkRoundTripsWitness ==
  /\ link.step = "found"
  /\ link.issue = 12
  /\ link.summary = <<"7", "Fixes #", "7">>
  /\ link.found = 12

\* a body in which no Fixes # is followed by a digit
NoMarker(body) ==
  \A k \in 1..Len(body) :
    body[k] = "Fixes #" => (k = Len(body) \/ body[k + 1] \notin
                              {"0", "1", "2", "3", "4", "5", "6", "7", "8", "9"})

\* C15: when the body of the pull request holds no Fixes # followed by
\* digits, the issue number read from it is 0 and every review-comment
\* callback of the poll call returns an error right away (at once, or after
\* the pull request could not be read): the assistant is not called, no
\* file is written and no record is changed
UnlinkedReviewIsRejected ==
  [][ \A i \in Issues :
        (IsPoll(i) /\ store[i].status \in {"pr_created", "reviewing"}
           /\ NoMarker(prs[i].body) /\ Logged(log', "cb", "review"))
        => /\ extractIssueNumber(prs[i].body) = 0
           /\ \A k \in 1..Len(log') :
                log'[k] = <<"cb", "review">>
                => \/ log'[k + 1] = <<"cberr", "review">>
                   \/ /\ log'[k + 1] = <<"err", "GetPullRequest">>
                      /\ log'[k + 2] = <<"cberr", "review">>
           /\ ~Logged(log', "err", "ReviewFeedback")
           /\ \A k \in 1..Len(log') : log'[k][1] \notin {"save", "write"}
           /\ store' = store /\ files' = files /\ comments' = comments ]_vars

UnlinkedReviewIsRejectedWitness ==
  /\ store[1].status = "pr_created"
  /\ prs[1].body = <<"Fixes #", "x", "1">>
  /\ log = << <<"poll", "1">>, <<"new", "r1">>, <<"cb", "review">>,
              <<"cberr", "review">>, <<"return", "nil">> >>

\* the agent has commented on the issue and its latest comment holds a
\* ready phrase, in whatever case
LatestOwnCommentIsReady(i) ==
  \E k \in 1..Len(comments[i]) :
    /\ comments[i][k].author = Bot
    /\ \A m \in (k + 1)..Len(comments[i]) : comments[i][m].author # Bot
    /\ \E t \in 1..Len(comments[i][k].body) :
         LowerTok(comments[i][k].body[t]) \in ReadyPhrases

\* C16: a poll call that reads a record in waiting_for_clarification first
\* reconciles it.  When the latest comment of the agent holds a ready phrase
\* (and the comments could be listed) the record is saved as
\* ready_to_implement, and once that save is done the record is read again
\* and the implementation callback is dispatched in the same call.
\* Otherwise reconciliation saves nothing: the record is written by a
\* callback of the call or not at all
ReconciliationDispatches ==
  [][ \A i \in Issues :
        (IsPoll(i) /\ store[i].status = "waiting_for_clarification"
           /\ log'[2] # <<"err", "GetState">>)
        => IF LatestOwnCommentIsReady(i) /\ log'[2] # <<"err", "ListIssueComments">>
           THEN /\ Len(log') >= 4
                /\ log'[2] = <<"reconcile", "ready_to_implement">>
                /\ log'[3] \in { <<"save", "ready_to_implement">>,
                                 <<"err", "SaveState">> }
                /\ (log'[3] = <<"save", "ready_to_implement">>
                      => log'[4] \in { <<"cb", "implementation">>,
                                       <<"err", "GetState">> })
                /\ \A k \in 1..Len(log') :
                     log'[k][1] = "cb"
                     => log'[k] = (IF log'[3][1] = "save"
                                   THEN <<"cb", "implementation">>
                                   ELSE <<"cb", "comment">>)
           ELSE /\ \A k \in 1..Len(log') : log'[k][1] # "reconcile"
                /\ \A k \in 1..Len(log') :
                     log'[k][1] = "save"
                     => \E m \in 1..(k - 1) : log'[m][1] = "cb"
                /\ (Count(log', LAMBDA e : e[1] = "cb") = 0 => store' = store) ]_vars

ReconciliationDispatchesWitness ==
  /\ Len(log) >= 6
  /\ log[2] = <<"reconcile", "ready_to_implement">>
  /\ log[3] = <<"save", "ready_to_implement">>
  /\ log[4] = <<"cb", "implementation">>
  /\ log[5] = <<"save", "implementing">>
  /\ store[1].status = "implementing"
  /\ pc.phase = "generating"

\* C17: reconcileStatus applied to a record that is ready_to_implement,
\* be it for the second time in a row, changes no record and writes nothing
\* to the store, whatever the comments of the issue are
ReconcileIdempotent ==
  [][ \A i \in Issues :
        (log' # <<>> /\ log'[1] = <<"reconcileStatus", ToString(i)>>
           /\ store[i].status = "ready_to_implement")
        => /\ store' = store
           /\ \A k \in 1..Len(log') :
                log'[k] \notin { <<"save", "ready_to_implement">>,
                                 <<"err", "SaveState">>,
                                 <<"reconcile", "ready_to_implement">> } ]_vars

ReconcileIdempotentWitness ==
  /\ store[1].status = "ready_to_implement"
  /\ store[1].updatedAt = 2
  /\ LatestOwnCommentIsReady(1)
  /\ log = << <<"reconcileStatus", "1">> >>

\* the kinds of the callbacks in a sequence of events
Kinds(events) == { events[k][2] : k \in { j \in 1..Len(events) : events[j][1] = "cb" } }

\* C18: the callbacks of one processIssue call are all of one kind, and the
\* kind is chosen by the record the call reads: the new-issue callback when
\* there is no record, the implementation callback for ready_to_implement,
\* for waiting_for_clarification that reconciliation saved as
\* ready_to_implement and for implementing that is stuck, new-comment
\* callbacks for waiting_for_clarification only, review-comment callbacks for
\* pr_created and reviewing only, and none for completed
OneKindOfCallback ==
  /\ [](Cardinality(Kinds(log)) <= 1)
  /\ [][ \A i \in Issues :
           (IsPoll(i) /\ log'[2] # <<"err", "GetState">>)
           => LET st == store[i]
                  kinds == Kinds(log')
              IN  /\ (st.id = 0 => kinds = {"issue"})
                  /\ (st.id # 0 /\ st.status = "ready_to_implement"
                        => kinds = {"implementation"})
                  /\ (st.id # 0 /\ st.status = "implementing"
                        => kinds = (IF now - st.updatedAt > 600
                                    THEN {"implementation"} ELSE {}))
                  /\ (st.id # 0 /\ st.status = "waiting_for_clarification"
                        => IF /\ Len(log') >= 4
                              /\ log'[2] = <<"reconcile", "ready_to_implement">>
                              /\ log'[3] = <<"save", "ready_to_implement">>
                              /\ log'[4] # <<"err", "GetState">>
                           THEN kinds = {"implementation"}
                           ELSE kinds \subseteq {"comment"})
                  /\ (st.id # 0 /\ st.status \in {"pr_created", "reviewing"}
                        => kinds \subseteq {"review"})
                  /\ (st.id # 0 /\ st.status = "completed"
                        => kinds = {} /\ store' = store /\ comments' = comments)
                  /\ ("issue" \in kinds => st.id = 0)
                  /\ ("comment" \in kinds
                        => st.status = "waiting_for_clarification")
                  /\ ("review" \in kinds
                        => st.status \in {"pr_created", "reviewing"}) ]_vars

OneKindOfCallbackWitness ==
  /\ Count(log, LAMBDA e : e = <<"cb", "comment">>) = 2
  /\ Logged(log, "return", "nil")
  /\ store[1].status = "waiting_for_clarification"

\* the comments of issue i that the poll loop may hand to a callback when it
\* read the record with this updatedAt: those of others, created later
NewSince(listed, updatedAt) ==
  { Head(listed[k].body) :
      k \in { j \in 1..Len(listed) :
                listed[j].author # Bot /\ listed[j].at > updatedAt } }

\* the comments a sequence of events hands to callbacks
Dispatched(events) ==
  { events[k][2] : k \in { j \in 1..Len(events) : events[j][1] = "new" } }

EveryIssueIsReached ==
  \A i \in Issues : <>(log # <<>> /\ log[1] = <<"poll", ToString(i)>>)

\* C21: the webhook ingress dispatches the callback of a created issue
\* comment or review comment exactly when the author of the comment is not
\* the agent's own identity: never for a comment of the agent, and for every
\* created comment of anybody else.
DispatchesUnlessOwnComment ==
  [][(/\ Len(log') >= 3
      /\ log'[1][1] = "webhook"
      /\ log'[1][2] \in {"issue_comment", "pull_request_review_comment"}
      /\ log'[2] = <<"action", "created">>)
     => LET dispatched == Len(log') >= 4 /\ log'[4][1] = "cb"
        IN  dispatched <=> log'[3][2] # Bot]_vars

\* C22: however the saves of concurrent handlers interleave, the table holds
\* at most one row for an issue, and a save for an issue that has a row
\* leaves the row where it is with its id and its createdAt and gives it the
\* updatedAt of the save; no second row is inserted.
OneRowPerIssue ==
  [][/\ \A i \in Issues : Cardinality(KeyRows(db'.rows, i)) <= 1
     /\ \A k \in 1..Len(db.rows) :
          /\ Len(db'.rows) >= k
          /\ db'.rows[k].issue = db.rows[k].issue
          /\ db'.rows[k].id = db.rows[k].id
          /\ db'.rows[k].createdAt = db.rows[k].createdAt
     /\ \A h \in Handlers :
          (savers'[h] # savers[h] /\ savers'[h].step = "saved")
          => LET i == savers[h].state.issue
             IN  /\ Len(db'.rows) = Len(db.rows)
                                      + (IF KeyRows(db.rows, i) = {} THEN 1 ELSE 0)
                 /\ \A k \in KeyRows(db'.rows, i) :
                      /\ db'.rows[k].updatedAt = now
                      /\ db'.rows[k].status = savers'[h].state.status]_vars

\* two handlers made a new State for the same issue, one has saved it, and
\* the other saves it later over the row of the first
OneRowPerIssueWitness ==
  /\ Len(db.rows) = 1
  /\ db.rows[1].createdAt < db.rows[1].updatedAt
  /\ \A h \in Handlers : savers[h].step = "saved" /\ savers[h].state.issue = 1
  /\ \E h \in Handlers : savers[h].state.createdAt = db.rows[1].updatedAt

\* a reply that is an object of the structured dialect
Structured == ~Unmarshal(parse.response).err

\* C23: the change set is parsed in the structured dialect first; the fenced
\* blocks are parsed only when the structured dialect has yielded no file,
\* and when it has yielded a file the result is what it has yielded and the
\* parser of the fenced blocks is not called.
StructuredDialectFirst ==
  parse.step \in {"parsed", "summarised"} =>
    LET structured == tryParseJSON(parse.response)
    IN  /\ parse.calls[1] = "tryParseJSON"
        /\ Contains(parse.calls, "tryParseMarkdown") <=> DOMAIN structured = {}
        /\ DOMAIN structured # {} =>
             parse.calls = <<"tryParseJSON">> /\ parse.changes = structured
        /\ DOMAIN structured = {} => parse.changes = tryParseMarkdown(parse.response)

\* both dialects have been at work: a structured reply with two files, and a
\* reply with text after the object, in which nothing is found
StructuredDialectFirstWitness ==
  /\ parse.step = "parsed"
  /\ \/ /\ parse.calls = <<"tryParseJSON">>
        /\ DOMAIN parse.changes = {"a.go", "b.go"}
     \/ /\ parse.calls = <<"tryParseJSON", "tryParseMarkdown">>
        /\ parse.tried = <<1>>
        /\ DOMAIN parse.changes = {"a.go"}

\* C24 as stated: a structured reply whose array files has N entries gives a
\* change set of exactly N entries, one for each entry, with the path of the
\* entry mapped to its content.
EveryFilesEntryIsAChange ==
  (parse.step = "parsed" /\ Structured) =>
    LET Files == Unmarshal(parse.response).Files
    IN  /\ Cardinality(DOMAIN parse.changes) = Len(Files)
        /\ \A k \in 1..Len(Files) :
             /\ EntryPath(Files[k]) \in DOMAIN parse.changes
             /\ parse.changes[EntryPath(Files[k])] = EntryContent(Files[k])

\* C24 as amended: the change set of a structured reply has one entry for
\* each path of the entries of files whose path and content are both not
\* empty, and the path is mapped to the content, unchanged, of the last such
\* entry with this path; it has N entries when the N entries are not empty
\* and their paths differ.
AcceptedFilesEntriesAreChanges ==
  (parse.step = "parsed" /\ Structured) =>
    LET Files == Unmarshal(parse.response).Files
        accepted == { k \in 1..Len(Files) :
                        EntryPath(Files[k]) # "" /\ EntryContent(Files[k]) # <<>> }
    IN  /\ DOMAIN parse.changes = { EntryPath(Files[k]) : k \in accepted }
        /\ \A k \in accepted :
             (\A m \in accepted : m > k => EntryPath(Files[m]) # EntryPath(Files[k]))
             => parse.changes[EntryPath(Files[k])] = EntryContent(Files[k])
        /\ (accepted = 1..Len(Files)
              /\ \A k, m \in accepted :
                   EntryPath(Files[k]) = EntryPath(Files[m]) => k = m)
           => Cardinality(DOMAIN parse.changes) = Len(Files)

\* two entries for a.go: the change set has the content of the second
AcceptedFilesEntriesAreChangesWitness ==
  /\ parse.step = "parsed"
  /\ Structured
  /\ Unmarshal(parse.response).Files =
       <<"{path: a.go, content: package a}", "{path: a.go, content: x := 1}">>
  /\ DOMAIN parse.changes = {"a.go"}
  /\ parse.changes["a.go"] = <<"x := 1">>

\* C25 as stated: the summary of a structured reply is the summary string of
\* the reply and nothing else.
SummaryIsSummaryString ==
  (parse.step = "summarised" /\ Structured) =>
    parse.summary = (IF Unmarshal(parse.response).Summary = "" THEN <<>>
                     ELSE <<Unmarshal(parse.response).Summary>>)

\* C25 as amended: the summary of a structured reply whose summary string is
\* not empty is the summary string, followed, when the change set is not
\* empty, by the heading of the files changed and the list of the paths of
\* the change set, each once, in any order.
SummaryStringThenFileList ==
  (parse.step = "summarised" /\ Structured
     /\ Unmarshal(parse.response).Summary # "") =>
    LET n == Cardinality(DOMAIN parse.changes)
    IN  /\ parse.summary[1] = Unmarshal(parse.response).Summary
        /\ IF n = 0 THEN Len(parse.summary) = 1
           ELSE /\ Len(parse.summary) = 2 + 2 * n
                /\ parse.summary[2] = "**Files changed:**"
                /\ \A k \in 1..n : parse.summary[1 + 2 * k] = "-"
                /\ { parse.summary[2 + 2 * k] : k \in 1..n } = DOMAIN parse.changes

\* the reply with the summary add file and the file a.go
SummaryStringThenFileListWitness ==
  /\ parse.step = "summarised"
  /\ parse.response = <<"{", "summary: add file", "files: [",
                        "{path: a.go, content: package a}", "]", "}">>
  /\ parse.changes = Put(NoChanges, "a.go", <<"package a">>)
  /\ parse.summary = <<"add file", "**Files changed:**", "-", "a.go">>

\* C26: the parser of the fenced blocks tries the fence with a path, then
\* the label File: or Path:, then the bare line with a path, each only when
\* the pattern before has yielded nothing; a path with neither a dot nor a
\* slash is never accepted by the first or the third pattern, only through
\* the label of the second.
PatternsInOrder ==
  (parse.step = "parsed" /\ Contains(parse.calls, "tryParseMarkdown")) =>
    /\ parse.tried \in {<<1>>, <<1, 2>>, <<1, 2, 3>>}
    /\ \A p \in 2..Len(parse.tried) : parse.accepted[p - 1] = 0
    /\ Len(parse.tried) < 3 => parse.accepted[Len(parse.tried)] > 0
    /\ \A path \in DOMAIN parse.changes :
         (~HasDot(path) /\ ~HasSlash(path))
         => /\ Last(parse.tried) = 2
            /\ \E k \in 1..Len(parse.response) : LabelPath(parse.response[k]) = path

\* a fence with the path Makefile is matched by the first pattern and not
\* accepted, and the label below it gives the file
PatternsInOrderWitness ==
  /\ parse.step = "parsed"
  /\ parse.response = <<"'''go Makefile", "x := 1'''",
                        "File: Makefile", "'''go", "x := 1'''">>
  /\ parse.tried = <<1, 2>>
  /\ parse.matches = <<1, 1, 0>>
  /\ DOMAIN parse.changes = {"Makefile"}

CallbackEvents == SubSeq(log', 5, Len(log'))

\* a step that delivers an event of this type and dispatches this callback
IsDelivery(eventType, callback) ==
  /\ pc.phase = "idle"
  /\ Len(log') >= 4
  /\ log'[1] = <<"webhook", eventType>>
  /\ log'[4] = <<"cb", callback>>

\* the first events of StartImplementation
ImplementationStarts ==
  { <<"err", "GetState">>, <<"err", "SaveState">>, <<"save", "implementing">> }

\* C28: HandleIssueComment either fails before it has a reply, or posts the
\* reply as a comment on the issue before anything else.  When it then saves
\* the record, the saved conversation is the old one with the comment as a
\* user turn and the reply as an assistant turn appended.  When the record
\* was waiting_for_clarification and the reply is no question, the save has
\* the status ready_to_implement and StartImplementation runs right after
\* it; otherwise the save has the status the record had, and the handler
\* returns.
CommentIsAnsweredThenSaved ==
  [][\A i \in Assigned :
       IsDelivery("issue_comment", "comment")
       => LET events == CallbackEvents
              k == CHOOSE k \in 1..Len(comments'[i]) :
                     /\ k > Len(comments[i])
                     /\ comments'[i][k].kind = "reply"
              reply == comments'[i][k]
              before == store[i]
              ready == /\ before.status = "waiting_for_clarification"
                       /\ ~isAskingQuestion(reply.body)
          IN  /\ events[1] \in { <<"err", "GetState">>, <<"return", "error">>,
                                 <<"err", "SendMessage">>,
                                 <<"err", "CreateIssueComment">>,
                                 <<"post", "reply">> }
              /\ events[1] = <<"post", "reply">>
                 => /\ reply.body \in Replies
                    /\ reply.re = comments'[i][k - 1].body
                    /\ events[2][1] \in {"err", "save"}
                    /\ events[2][1] = "err"
                       => /\ events[2][2] = "SaveState"
                          /\ store'[i] = before
                    /\ events[2][1] = "save"
                       => /\ IsPrefix(before.conversation
                                        \o <<Msg("user", reply.re),
                                             Msg("assistant", reply.body)>>,
                                      store'[i].conversation)
                          /\ IF ready
                             THEN /\ events[2][2] = "ready_to_implement"
                                  /\ events[3] \in ImplementationStarts
                             ELSE /\ events[2][2] = before.status
                                  /\ store'[i].status = before.status
                                  /\ events[3] = <<"return", "nil">>
                                  /\ Len(events) = 3]_vars

CommentIsAnsweredThenSavedWitness ==
  /\ Len(log) >= 7
  /\ log[1] = <<"webhook", "issue_comment">>
  /\ log[4] = <<"cb", "comment">>
  /\ log[5] = <<"post", "reply">>
  /\ log[6] = <<"save", "ready_to_implement">>
  /\ log[7] = <<"save", "implementing">>
  /\ Len(store[1].conversation) >= 4

\* the place of the first save among these events (0: none)
FirstSave(events) ==
  LET saves == { k \in 1..Len(events) : events[k][1] = "save" }
  IN  IF saves = {} THEN 0 ELSE CHOOSE k \in saves : \A m \in saves : k <= m

\* the lower-cased reply contains one of the six phrases or ends with "?"
ReadsAsQuestion(response) ==
  LET lower == ToLower(response)
  IN  \/ \E k \in 1..Len(lower) :
           lower[k] \in {"question?", "questions:", "could you clarify",
                         "can you clarify", "please clarify", "need clarification"}
      \/ (Len(lower) > 0 /\ lower[Len(lower)] = "?")

\* C29: the first save of HandleIssueAssignment has the status
\* waiting_for_clarification when the reply reads as a question, and then
\* the handler returns; it has the status ready_to_implement when the reply
\* does not, and then StartImplementation runs right after the save.  The
\* first save of HandleIssueComment on a record that was
\* waiting_for_clarification keeps the status under the same condition on
\* its reply and has ready_to_implement otherwise.
StatusFollowsQuestion ==
  [][\A i \in Assigned :
       LET events == CallbackEvents
           first == FirstSave(events)
           response == Last(store'[i].conversation).content
           expected == IF ReadsAsQuestion(response)
                       THEN "waiting_for_clarification" ELSE "ready_to_implement"
       IN  /\ (IsDelivery("issues", "issue") /\ first # 0)
              => /\ events[first][2] = expected
                 /\ IF expected = "ready_to_implement"
                    THEN events[first + 1] \in ImplementationStarts
                    ELSE /\ events[first + 1] = <<"return", "nil">>
                         /\ store'[i].status = expected
           /\ (/\ IsDelivery("issue_comment", "comment")
               /\ first # 0
               /\ store[i].status = "waiting_for_clarification")
              => events[first][2] = expected]_vars

StatusFollowsQuestionWitness ==
  /\ Len(log) = 7
  /\ log[1] = <<"webhook", "issues">>
  /\ log[4] = <<"cb", "issue">>
  /\ log[5] = <<"post", "analysis">>
  /\ log[6] = <<"save", "waiting_for_clarification">>
  /\ log[7] = <<"return", "nil">>
  /\ Last(store[1].conversation).content = <<"text", "?">>

\* C30: HandleIssueAssignment posts the analysis comment exactly when the
\* conversation with the reply has two messages at most, and posts none on
\* an issue that had comments already, nor on a record whose conversation
\* had more than two messages.
AnalysisCommentOnlyOnFreshIssue ==
  [][\A i \in Assigned :
       IsDelivery("issues", "issue")
       => /\ FirstSave(CallbackEvents) # 0
             => (Logged(CallbackEvents, "post", "analysis")
                 <=> Len(store'[i].conversation) <= 2)
          /\ (comments[i] # <<>> \/ Len(store[i].conversation) > 2)
             => ~Logged(CallbackEvents, "post", "analysis")]_vars

\* the place of an event among these events (0: it is not there)
PlaceOf(events, kind, arg) ==
  LET at == { k \in 1..Len(events) : events[k] = <<kind, arg>> }
  IN  IF at = {} THEN 0 ELSE CHOOSE k \in at : \A m \in at : k <= m

\* C31: when CreateBranch fails on a repository that has no commits, the
\* implementation goes on: no branch is created, the record is saved with
\* the default branch as its branchName, and the run enters code generation
\* with the default branch as its target, from where it opens no pull
\* request.  When CreateBranch fails with another error, the handler returns
\* the error right away: no file is written and no pull request opened after
\* it, and the record is left in implementing without a branchName.
EmptyRepositoryFallsBack ==
  [][\A i \in Issues :
       LET events == NewEvents
           called == PlaceOf(events, "call", "CreateBranch")
           failed == events[called + 1] = <<"err", "CreateBranch">>
       IN  /\ (StepIssue = i /\ called # 0 /\ repoEmpty /\ ~failed)
              => /\ branches' = branches
                 /\ events[called + 1] \in { <<"save", "implementing">>,
                                            <<"err", "SaveState">> }
                 /\ events[called + 1][1] = "save"
                    => /\ store'[i].branchName = "main"
                       /\ store'[i].status = "implementing"
                       /\ pc'.phase = "generating"
                       /\ pc'.branchName = "main"
                       /\ pc'.defaultBranch = "main"
           /\ (StepIssue = i /\ called # 0 /\ failed)
              => /\ events[called + 2] \in { <<"return", "error">>,
                                            <<"cberr", "comment">> }
                 /\ \A k \in (called + 2)..Len(events) :
                      events[k][1] # "write" /\ events[k] # <<"call", "CreatePullRequest">>
                 /\ store'[i].status = "implementing"
                 /\ store'[i].branchName = ""
                 /\ pc'.phase = "idle"
           /\ (StepIssue = i /\ pc.phase = "generating"
                 /\ pc.branchName = pc.defaultBranch)
              => /\ prs' = prs
                 /\ store'[i].prNumber = 0]_vars

EmptyRepositoryFallsBackWitness ==
  /\ Logged(log, "call", "CreateBranch")
  /\ ~Logged(log, "err", "CreateBranch")
  /\ repoEmpty
  /\ branches = {}
  /\ store[1].branchName = "main"
  /\ pc.phase = "generating"
  /\ pc.branchName = "main"

\* C32: when HandlePRComment saves the record that the body of the pull
\* request resolves to, the save has the status reviewing, the conversation
\* has grown by the feedback as a user turn and the reply as an assistant
\* turn, every path of the change set parsed from the reply is written on
\* the branch the record names and nothing else is written, and the record
\* keeps its branchName and its pullRequestNumber; with an empty change set
\* no file is written and the record is saved as reviewing all the same.
ReviewFeedbackIsApplied ==
  [][\A i \in Issues :
       LET events == CallbackEvents
           first == FirstSave(events)
           before == store[i]
           after == store'[i]
           response == Last(after.conversation).content
           paths == DOMAIN parseCodeChanges(response)
       IN  (/\ IsDelivery("pull_request_review_comment", "review")
            /\ prComments'[i] # prComments[i]
            /\ first # 0)
           => /\ events[first] = <<"save", "reviewing">>
              /\ after.status = "reviewing"
              /\ response \in CodeReplies
              /\ after.conversation =
                   before.conversation
                     \o << Msg("user", <<"Review feedback:">>
                                         \o Last(prComments'[i]).body),
                           Msg("assistant", response) >>
              /\ files' = files \cup { <<before.branchName, path>> : path \in paths }
              /\ Logged(events, "write", before.branchName) <=> paths # {}
              /\ after.branchName = before.branchName
              /\ after.prNumber = before.prNumber
              /\ prs' = prs /\ branches' = branches]_vars

ReviewFeedbackIsAppliedWitness ==
  /\ Len(log) >= 6
  /\ log[1] = <<"webhook", "pull_request_review_comment">>
  /\ log[4] = <<"cb", "review">>
  /\ log[5] = <<"write", BranchFor(1)>>
  /\ log[6] = <<"save", "reviewing">>
  /\ store[1].status = "reviewing"
  /\ store[1].branchName = BranchFor(1)
  /\ store[1].prNumber = PRNumberFor(1)

\* C33: a processIssue call that finds the record in implementing with an
\* updatedAt of more than 600 seconds ago dispatches the implementation
\* again, and when no call of the store, the tracker or the assistant fails
\* for a reason of its own during the attempt, the attempt gets to code
\* generation, and with the reply of the assistant the record leaves
\* implementing for pr_created, completed or waiting_for_clarification: a
\* record in implementing is recovered by the first attempt that meets no
\* outage.
StuckIsRecovered ==
  [][\A i \in Issues :
       /\ (IsPoll(i) /\ store[i].status = "implementing"
             /\ now - store[i].updatedAt > 600 /\ faults' = faults)
          => /\ Logged(log', "cb", "implementation")
             /\ pc'.phase = "generating"
       /\ (pc.phase = "generating" /\ pc.issue = i /\ pc.caller = "implementation"
             /\ genReply' # <<>> /\ faults' = faults)
          => store'[i].status \in {"pr_created", "completed",
                                   "waiting_for_clarification"}]_vars

\* the statuses a stored record can have
PersistedStatuses ==
  {"waiting_for_clarification", "ready_to_implement", "implementing",
   "pr_created", "reviewing", "completed"}

\* C34: the status analyzing is never persisted: no SaveState of a handler
\* step saves a record whose status is analyzing, and every record of the
\* store has one of the six other statuses.
AnalyzingIsTransient ==
  /\ ~Logged(log, "save", "analyzing")
  /\ \A i \in Issues : store[i].id # 0 => store[i].status \in PersistedStatuses

\* a new issue has been analysed and its record saved for the first time
AnalyzingIsTransientWitness ==
  /\ Logged(log, "cb", "issue")
  /\ \E k \in 1..Len(log) : log[k][1] = "save"
  /\ store[1].id # 0
  /\ store[1].createdAt = store[1].updatedAt

\* C35: a delivery of an issues event dispatches the new-issue callback only
\* when its action is assigned and its assignee is the agent; a delivery with
\* another assignee or another action dispatches nothing.
IssuesEventOnlyForTheAgent ==
  [][(pc.phase = "idle" /\ log' # <<>> /\ log'[1] = <<"webhook", "issues">>)
       => (Logged(log', "cb", "issue")
             <=> (log'[2] = <<"action", "assigned">> /\ log'[3] = <<"author", Bot>>))]_vars

\* the comments of others on an issue
CommentsOfOthers(i) == SelectSeq(comments[i], LAMBDA c : c.author # Bot)

\* C36: when the handlers of an issue have all returned and no call has
\* failed, the record holds the work of each of them: every comment that was
\* handled is a user turn of the conversation, and the totals count the
\* first analysis and one assistant call for each comment; no save of a
\* handler was replaced by a save that another handler computed from an
\* older read.
NoSaveIsLost ==
  \A i \in Assigned :
    (pc.phase = "idle" /\ faults = MaxFaults
       /\ \A h \in Handlers : savers[h].step = "idle")
      => /\ \A k \in 1..Len(CommentsOfOthers(i)) :
              \E m \in 1..Len(store[i].conversation) :
                store[i].conversation[m] = Msg("user", CommentsOfOthers(i)[k].body)
         /\ store[i].totalIn >= UsageOf(FirstQuestion).in * (1 + Len(CommentsOfOthers(i)))

\* the statuses of a record whose pull request is open
PullRequestStatuses == {"pr_created", "reviewing"}

\* what a record with a pull request must not see again
StartsAgain ==
  { <<"cb", "implementation">>, <<"save", "implementing">>,
    <<"save", "ready_to_implement">>, <<"save", "waiting_for_clarification">>,
    <<"save", "completed">>, <<"call", "CreatePullRequest">> }

\* C37: in poll mode a record that has reached pr_created keeps a status
\* among pr_created and reviewing, the implementation is not dispatched or
\* started for it again and no second pull request is opened: neither by a
\* later step, nor by the rest of the step that has saved pr_created.
PullRequestIsFinal ==
  [][\A i \in Assigned :
       /\ store[i].status \in PullRequestStatuses
            => /\ store'[i].status \in PullRequestStatuses
               /\ prs'[i].number = prs[i].number
               /\ store'[i].prNumber = store[i].prNumber
               /\ \A k \in 1..Len(NewEvents) : NewEvents[k] \notin StartsAgain
       /\ \A k \in 1..Len(NewEvents) :
            NewEvents[k] = <<"save", "pr_created">>
              => /\ store'[i].status \in PullRequestStatuses
                 /\ \A m \in (k + 1)..Len(NewEvents) : NewEvents[m] \notin StartsAgain]_vars

\* a comment on the pull request was handled and the record is reviewing
PullRequestIsFinalWitness ==
  /\ store[1].status = "reviewing"
  /\ prs[1].number # 0
  /\ Logged(log, "cb", "review")
  /\ Logged(log, "save", "reviewing")

\* the status of the row at the moment of event k of a step: the status of the
\* last save before it, or the status the row had when the step began
PersistedAt(events, k, before) ==
  LET saves == { m \in 1..(k - 1) : events[m][1] = "save" }
  IN  IF saves = {} THEN before
      ELSE events[CHOOSE m \in saves : \A n \in saves : n <= m][2]

\* C38: in poll mode the new-comment callback is called only at a moment
\* when the saved status of the record is waiting_for_clarification; once a
\* comment of a tick has moved the record to another status, the comments
\* that remain are not handed to the callback.
CommentsOnlyWhileWaiting ==
  [][\A i \in Assigned :
       \A k \in 1..Len(NewEvents) :
         NewEvents[k] = <<"cb", "comment">>
           => PersistedAt(NewEvents, k, store[i].status)
                = "waiting_for_clarification"]_vars

\* what the implementation does outside of the store: its comments, the
\* branch, the files and the pull request
IsImplementationEffect(e) ==
  \/ e[1] = "write"
  \/ e[1] = "post" /\ e[2] \in {"start", "empty", "pr", "completed"}
  \/ e[1] = "call" /\ e[2] \in {"CreateBranch", "CreatePullRequest"}

\* the statuses of a record whose implementation has begun
StartedStatuses == {"implementing", "pr_created", "reviewing", "completed"}

\* C39: the implementation saves the status implementing before its first
\* effect outside of the store: at the moment of the starting comment, of a
\* branch creation, of a file write, of the opening of the pull request and
\* of a call of the assistant for code, the saved status is implementing or
\* a later one.  A step in which the implementation had an effect and did
\* not end with the request for a review of an empty change set leaves the
\* record implementing or later, never ready_to_implement or
\* waiting_for_clarification.
ImplementingBeforeEffects ==
  [][\A i \in Assigned :
       LET events == NewEvents
           effects == { k \in 1..Len(events) : IsImplementationEffect(events[k]) }
       IN  /\ \A k \in effects :
                events[k] # <<"post", "empty">>
                  => PersistedAt(events, k, store[i].status) \in StartedStatuses
           /\ pc'.phase = "generating" => store'[i].status = "implementing"
           /\ (effects # {} /\ ~Logged(events, "post", "empty"))
                => store'[i].status \in StartedStatuses]_vars

\* the implementation has failed after its starting comment
ImplementingBeforeEffectsWitness ==
  /\ Logged(log, "post", "start")
  /\ Logged(log, "return", "error")
  /\ \E k \in 1..Len(log) : log[k][1] = "err" /\ PlaceOf(log, "post", "start") < k
  /\ store[1].status = "implementing"

\* C40: when the call of the assistant fails in HandleIssueComment or in
\* HandlePRComment, the handler returns the error at once, so that it posts
\* no comment, writes no file and saves nothing, and when the processIssue
\* call is over the comment is still newer than the updatedAt of the record:
\* the next tick finds it again.
FailedCommentIsSeenAgain ==
  [][\A i \in Assigned :
       \A k \in 2..(Len(NewEvents) - 2) :
         (/\ NewEvents[k - 1][1] = "new"
          /\ \/ /\ NewEvents[k] = <<"cb", "comment">>
                /\ NewEvents[k + 1] = <<"err", "SendMessage">>
             \/ /\ NewEvents[k] = <<"cb", "review">>
                /\ NewEvents[k + 1] = <<"err", "ReviewFeedback">>)
           => /\ NewEvents[k + 2] = <<"cberr", NewEvents[k][2]>>
              /\ NewEvents[k - 1][2] \in
                   NewSince(comments'[i], store'[i].updatedAt)
                     \cup NewSince(prComments'[i], store'[i].updatedAt)]_vars

====
